---- MODULE Spec2Model ----
(***************************************************************************)
(* Model of mac_messages_mcp/messages.py: recipient resolution, the        *)
(* per-function "recent matches" sessions of send_message and              *)
(* get_recent_messages, the cached directories and the token matcher.      *)
(*                                                                         *)
(* Strings are sequences of characters; a character is a one-character     *)
(* string, or the name of a code point ("U+1F600") for non-ASCII ones.     *)
(* Scores are exact rationals [n, d] in lowest terms (Python computes      *)
(* them in binary floating point).                                         *)
(***************************************************************************)
EXTENDS Integers, Sequences, FiniteSets, TLC

(***************************************************************************)
(* Characters and strings                                                  *)
(***************************************************************************)
LowerSeq == <<"a","b","c","d","e","f","g","h","i","j","k","l","m",
              "n","o","p","q","r","s","t","u","v","w","x","y","z">>

UpperSeq == <<"A","B","C","D","E","F","G","H","I","J","K","L","M",
              "N","O","P","Q","R","S","T","U","V","W","X","Y","Z">>

DigitSeq == <<"0","1","2","3","4","5","6","7","8","9">>

Range(s) == {s[i] : i \in DOMAIN s}

IndexOf(seq, c) == CHOOSE i \in DOMAIN seq : seq[i] = c

\* str.isdigit() on the characters in use
IsDigit(c) == c \in Range(DigitSeq)

\* \s of the re module on the characters in use
IsSpace(c) == c \in {" ", "\t"}

\* \w of the re module (UNICODE): letters, digits, underscore; "U+4E2D" is
\* a CJK letter
IsWord(c) == c \in Range(LowerSeq) \cup Range(UpperSeq) \cup Range(DigitSeq)
                   \cup {"_", "U+4E2D"}

\* the character class of emoji_pattern: U+1F600 is an emoticon, U+2702 a
\* dingbat, and the range U+24C2-U+1F251 also holds the CJK letter U+4E2D
InEmojiPattern(c) == c \in {"U+1F600", "U+2702", "U+4E2D"}

\* str.lower() of one character
LowerChar(c) == IF c \in Range(UpperSeq) THEN LowerSeq[IndexOf(UpperSeq, c)] ELSE c

Lower(s) == [i \in DOMAIN s |-> LowerChar(s[i])]

\* str.strip(): whitespace removed at both ends
RECURSIVE LStrip(_)
LStrip(s) == IF s # <<>> /\ IsSpace(Head(s)) THEN LStrip(Tail(s)) ELSE s

RECURSIVE RStrip(_)
RStrip(s) ==
    IF s # <<>> /\ IsSpace(s[Len(s)]) THEN RStrip(SubSeq(s, 1, Len(s) - 1)) ELSE s

Strip(s) == RStrip(LStrip(s))

\* re.sub(r'\s+', ' ', s): every run of whitespace becomes one space
RECURSIVE CollapseSpace(_)
CollapseSpace(s) ==
    IF s = <<>> THEN <<>>
    ELSE IF IsSpace(Head(s))
         THEN <<" ">> \o CollapseSpace(LStrip(s))
         ELSE <<Head(s)>> \o CollapseSpace(Tail(s))

\* str.startswith
StartsWith(s, p) == Len(p) <= Len(s) /\ SubSeq(s, 1, Len(p)) = p

\* c in s
Contains(s, c) == c \in Range(s)

\* str.split(): the maximal runs of non-whitespace characters
RECURSIVE Split(_)
Split(s) ==
    LET t == LStrip(s)
        n == IF \E i \in DOMAIN t : IsSpace(t[i])
             THEN (CHOOSE i \in DOMAIN t :
                      IsSpace(t[i]) /\ \A j \in 1..(i - 1) : ~IsSpace(t[j])) - 1
             ELSE Len(t)
    IN  IF t = <<>> THEN <<>>
        ELSE <<SubSeq(t, 1, n)>> \o Split(SubSeq(t, n + 1, Len(t)))

(***************************************************************************)
(* Normalizer                                                              *)
(***************************************************************************)
normalize_phone_number(phone) == SelectSeq(phone, IsDigit)

KeptByCleanName(c) == IsWord(c) \/ IsSpace(c) \/ c \in {"'", "-"}

NotInEmojiPattern(c) == ~InEmojiPattern(c)

\* a cleaning that strips the ends before it drops characters
clean_name_strip_first(name) ==
    CollapseSpace(SelectSeq(SelectSeq(Strip(name), NotInEmojiPattern), KeptByCleanName))

clean_name(name) ==
    Strip(CollapseSpace(SelectSeq(SelectSeq(name, NotInEmojiPattern), KeptByCleanName)))

(***************************************************************************)
(* Scores: rationals in lowest terms                                       *)
(***************************************************************************)
RECURSIVE Gcd(_, _)
Gcd(a, b) == IF b = 0 THEN a ELSE Gcd(b, a % b)

Frac(n, d) == LET g == Gcd(n, d) IN [n |-> n \div g, d |-> d \div g]

ScoreLt(x, y) == x.n * y.d < y.n * x.d

ScoreGe(x, y) == ~ScoreLt(x, y)

ScoreMax(x, y) == IF ScoreLt(x, y) THEN y ELSE x

ScoreZero == Frac(0, 1)

ScoreOne == Frac(1, 1)

\* the default threshold of fuzzy_match, 0.6
Threshold == Frac(6, 10)

\* an exact token match that scores as a prefix of full length, 0.85
TokenExactAsPrefix == Frac(85, 100)

\* the score of an exact token match, 0.95
TokenExact == Frac(95, 100)

(***************************************************************************)
(* difflib.SequenceMatcher(None, a, b).ratio()                             *)
(***************************************************************************)
\* length of the common run of a from i and b from j, inside [.., ahi) x [.., bhi)
RECURSIVE RunLen(_, _, _, _, _, _)
RunLen(a, b, i, j, ahi, bhi) ==
    IF i < ahi /\ j < bhi /\ a[i] = b[j]
    THEN 1 + RunLen(a, b, i + 1, j + 1, ahi, bhi)
    ELSE 0

\* find_longest_match: the longest block, the one starting earliest in a, and
\* of those the one starting earliest in b
find_longest_match(a, b, alo, ahi, blo, bhi) ==
    LET Starts == (alo..(ahi - 1)) \X (blo..(bhi - 1))
        K(p)   == RunLen(a, b, p[1], p[2], ahi, bhi)
        best   == CHOOSE p \in Starts :
                     \A q \in Starts :
                        \/ K(q) < K(p)
                        \/ K(q) = K(p) /\ (p[1] < q[1] \/ (p[1] = q[1] /\ p[2] <= q[2]))
    IN  [i |-> best[1], j |-> best[2], k |-> K(best)]

\* the total size of get_matching_blocks
RECURSIVE MatchedChars(_, _, _, _, _, _)
MatchedChars(a, b, alo, ahi, blo, bhi) ==
    IF alo >= ahi \/ blo >= bhi THEN 0
    ELSE LET m == find_longest_match(a, b, alo, ahi, blo, bhi)
         IN  IF m.k = 0 THEN 0
             ELSE m.k + MatchedChars(a, b, alo, m.i, blo, m.j)
                      + MatchedChars(a, b, m.i + m.k, ahi, m.j + m.k, bhi)

ratio(a, b) ==
    IF Len(a) + Len(b) = 0 THEN ScoreOne
    ELSE Frac(2 * MatchedChars(a, b, 1, Len(a) + 1, 1, Len(b) + 1), Len(a) + Len(b))

(***************************************************************************)
(* Token Fuzzy Matcher                                                     *)
(***************************************************************************)
\* the score one token contributes (the loop body of lines 335-351)
TokenScore(query, token) ==
    IF query = token THEN TokenExact
    ELSE IF StartsWith(token, query) THEN Frac(85 * Len(query), 100 * Len(token))
    ELSE IF StartsWith(query, token) THEN Frac(80 * Len(token), 100 * Len(query))
    ELSE ratio(query, token)

RECURSIVE BestTokenScore(_, _)
BestTokenScore(query, tokens) ==
    IF tokens = <<>> THEN ScoreZero
    ELSE ScoreMax(TokenScore(query, Head(tokens)), BestTokenScore(query, Tail(tokens)))

\* the score of one candidate label against an already cleaned, lowered query
\* (lines 324-356)
CandidateScore(query, name, threshold) ==
    LET clean_candidate  == Lower(clean_name(name))
        best_token_score == BestTokenScore(query, Split(clean_candidate))
    IN  IF query = clean_candidate THEN ScoreOne
        ELSE IF Contains(query, " ") \/ ScoreLt(best_token_score, threshold)
             THEN ScoreMax(best_token_score, ratio(query, clean_candidate))
             ELSE best_token_score

\* an insertion that goes before the entries of the same score
RECURSIVE InsertBeforeEqual(_, _)
InsertBeforeEqual(sorted, x) ==
    IF sorted = <<>> THEN <<x>>
    ELSE IF ScoreGe(x.score, Head(sorted).score) THEN <<x>> \o sorted
         ELSE <<Head(sorted)>> \o InsertBeforeEqual(Tail(sorted), x)

\* sorted(results, key=score, reverse=True): a stable sort, descending
RECURSIVE InsertByScore(_, _)
InsertByScore(sorted, x) ==
    IF sorted = <<>> THEN <<x>>
    ELSE IF ScoreLt(Head(sorted).score, x.score) THEN <<x>> \o sorted
         ELSE <<Head(sorted)>> \o InsertByScore(Tail(sorted), x)

RECURSIVE SortByScore(_)
SortByScore(xs) ==
    IF xs = <<>> THEN <<>>
    ELSE InsertByScore(SortByScore(SubSeq(xs, 1, Len(xs) - 1)), xs[Len(xs)])

RECURSIVE ScoreAll(_, _, _)
ScoreAll(query, candidates, threshold) ==
    IF candidates = <<>> THEN <<>>
    ELSE LET c == Head(candidates)
             s == CandidateScore(query, c.name, threshold)
         IN  (IF ScoreGe(s, threshold)
              THEN <<[name |-> c.name, value |-> c.value, score |-> s]>>
              ELSE <<>>) \o ScoreAll(query, Tail(candidates), threshold)

\* a matching that ranks every candidate, whatever its score
fuzzy_match_unfiltered(query, candidates, threshold) ==
    LET q == Lower(clean_name(query))
    IN  IF q = <<>> THEN <<>>
        ELSE SortByScore(ScoreAll(q, candidates, ScoreZero))

\* candidates: sequence of [name, value]; result: sequence of [name, value, score]
fuzzy_match(query, candidates, threshold) ==
    LET q == Lower(clean_name(query))
    IN  IF q = <<>> THEN <<>>
        ELSE SortByScore(ScoreAll(q, candidates, threshold))

(***************************************************************************)
(* Optional values: None is <<>>, a value x is <<x>>                       *)
(***************************************************************************)
None == <<>>

Some(x) == <<x>>

\* a list of forms that holds the normalized phone alone
formats_to_try_normalized_only(phone) ==
    IF normalize_phone_number(phone) = <<>> THEN <<>>
    ELSE <<normalize_phone_number(phone)>>

\* lines 1656-1670: formats_to_try of find_handle_by_phone, <<>> where the
\* function returns None before it builds the list
formats_to_try(phone) ==
    LET normalized == normalize_phone_number(phone)
    IN  IF normalized = <<>> THEN <<>>
        ELSE IF Head(normalized) = "1" /\ Len(normalized) > 10
        THEN <<normalized, Tail(normalized)>>
        ELSE IF Len(normalized) = 10
        THEN <<normalized, <<"1">> \o normalized>>
        ELSE <<normalized>>

\* lines 1690-1707: the handle ids that the query admits are the forms and
\* the forms with "+" in front; handles lists the ids in the order of the
\* query; the result is the place of the first id admitted, None if none is
find_handle_by_phone(phone, handles) ==
    LET formats == formats_to_try(phone)
        params  == formats \o [i \in DOMAIN formats |-> <<"+">> \o formats[i]]
        rows    == {i \in DOMAIN handles : handles[i] \in Range(params)}
    IN  IF rows = {} THEN None
        ELSE Some(CHOOSE i \in rows : \A j \in rows : i <= j)

\* lines 877-892 of get_contact_name: the keys of the contact map that are
\* looked up for the id of a handle, each one only if the one before missed
ContactKeysTried(handle_id_value, keys) ==
    LET normalized_handle == normalize_phone_number(handle_id_value)
    IN  IF normalized_handle \in keys THEN <<normalized_handle>>
        ELSE IF normalized_handle # <<>> /\ Head(normalized_handle) = "1"
                  /\ Len(normalized_handle) > 10
        THEN <<normalized_handle, Tail(normalized_handle)>>
        ELSE IF Len(normalized_handle) = 10
        THEN <<normalized_handle, <<"1">> \o normalized_handle>>
        ELSE <<normalized_handle>>

\* lines 877-892: the key of the contact found for the id of a handle, None
\* where the function goes on to the display name of the chat
ContactKeyFound(handle_id_value, keys) ==
    LET tried == ContactKeysTried(handle_id_value, keys)
    IN  IF tried[Len(tried)] \in keys THEN Some(tried[Len(tried)]) ELSE None

(***************************************************************************)
(* The external directories: what the chat database and the AddressBook    *)
(* database can hold when they are read. Rows come in the order of the     *)
(* queries' ORDER BY clauses.                                              *)
(***************************************************************************)
S_iMessage == <<"i","M","e","s","s","a","g","e">>

S_SMS == <<"S","M","S">>

S_chat1 == <<"c","h","a","t","1">>

S_chat2 == <<"c","h","a","t","2">>

S_chat3 == <<"c","h","a","t","3">>

S_chat4 == <<"c","h","a","t","4">>

S_chat5 == <<"c","h","a","t","5">>

S_chat6 == <<"c","h","a","t","6">>

ChatRow(rowid, room, display, ident, service) ==
    [rowid |-> rowid, room_name |-> room, display_name |-> display,
     chat_identifier |-> ident, service_name |-> service]

\* a service_name or display_name of <<>> is NULL in the database; the rows
\* come in the order of the query, by display_name (NULL first) and room_name.
\* The chat of row 6 has the chat identifier of row 3 and so the same
\* constructed chat id
\* and six chats are named "Kim A" to "Kim F"
KimChats == 6

KimChatRow(k) ==
    ChatRow(10 + k, <<"k","i","m">> \o <<DigitSeq[k + 1]>>,
            <<"K","i","m"," ">> \o <<UpperSeq[k]>>,
            <<"k","i","m">> \o <<DigitSeq[k + 1]>>, S_iMessage)

GroupWorld1 ==
    << ChatRow(5, S_chat5, <<>>, S_chat5, S_iMessage),
       ChatRow(3, S_chat3, <<"B","o","o","k"," ","C","l","u","b">>, S_chat3, S_iMessage),
       ChatRow(6, S_chat6, <<"B","o","o","k","i","n","g">>, S_chat3, <<>>),
       ChatRow(1, S_chat1, <<"D","e","v"," ","O","p","s">>, S_chat1, <<>>),
       ChatRow(2, S_chat2, <<"D","e","v"," ","W","e","b">>, S_chat2, S_SMS) >>
      \o [k \in 1..KimChats |-> KimChatRow(k)]
      \o << ChatRow(4, S_chat4, <<"S","a","m"," ","F","a","m">>, S_chat4, S_iMessage) >>

GroupWorlds == {GroupWorld1}

ContactRow(first, last, nick, phone) ==
    [first_name |-> first, last_name |-> last, nickname |-> nick, phone |-> phone]

\* the rows come in the order of the query, by last name and first name;
\* eleven contacts are named "Kim Ta" to "Kim Tk"
KimContacts == 11

KimContactRow(k) ==
    ContactRow(<<"K","i","m">>, <<"T">> \o <<LowerSeq[k]>>, <<>>,
               <<"5","6">> \o <<DigitSeq[(k \div 10) + 1], DigitSeq[(k % 10) + 1]>>)

ContactWorld1 ==
    << ContactRow(<<"S","a","m","m">>, <<"L","e","e">>, <<"S","a","m","m","y">>,
                  <<"(","5","5",")"," ","0","1">>),
       ContactRow(<<"B","o","b">>, <<"R","a","y">>, <<"W","e","b">>,
                  <<"5","5","-","0","3">>),
       ContactRow(<<"S","a","m">>, <<"R","o","y">>, <<>>, <<"5","5","0","2">>) >>
      \o [k \in 1..KimContacts |-> KimContactRow(k)]

ContactWorlds == {ContactWorld1}

(***************************************************************************)
(* Group directory adapter                                                 *)
(***************************************************************************)
_GROUP_CHATS_CACHE_TTL == 300

\* lines 97-109: a row with its two constructed AppleScript chat ids
BuildChat(row) ==
    LET service == IF row.service_name # <<>> THEN row.service_name ELSE S_iMessage
        chat_id == IF row.chat_identifier # <<>> THEN row.chat_identifier
                   ELSE row.room_name
    IN  [rowid |-> row.rowid, room_name |-> row.room_name,
         display_name |-> row.display_name,
         chat_identifier |-> row.chat_identifier,
         service_name |-> row.service_name,
         applescript_id |-> service \o <<";","+",";">> \o chat_id,
         applescript_id_alt |-> <<"a","n","y">> \o <<";","+",";">> \o chat_id]

BuildChats(rows) == [i \in DOMAIN rows |-> BuildChat(rows[i])]

\* what one read of the chat database can give: its rows, or a failure
\* (database missing, sqlite3.OperationalError, any other exception)
GroupFetches ==
    {[ok |-> TRUE, rows |-> w] : w \in GroupWorlds} \cup {[ok |-> FALSE, rows |-> <<>>]}

\* an adapter that returns what it fetched and caches an empty list
get_group_chats_caching_nothing(cache, cacheTime, t, fetch) ==
    IF cache # None /\ (t - cacheTime) < _GROUP_CHATS_CACHE_TTL
    THEN [error |-> FALSE, ret |-> cache[1], cache |-> cache, time |-> cacheTime,
          fetched |-> FALSE]
    ELSE IF fetch.ok
         THEN [error |-> FALSE, ret |-> BuildChats(fetch.rows),
               cache |-> Some(<<>>), time |-> t, fetched |-> TRUE]
         ELSE [error |-> TRUE, ret |-> <<>>, cache |-> cache, time |-> cacheTime,
               fetched |-> TRUE]

\* an adapter that keeps the result of a failed fetch as its snapshot
get_group_chats_keeping_errors(cache, cacheTime, t, fetch) ==
    IF cache # None /\ (t - cacheTime) < _GROUP_CHATS_CACHE_TTL
    THEN [error |-> FALSE, ret |-> cache[1], cache |-> cache, time |-> cacheTime,
          fetched |-> FALSE]
    ELSE IF fetch.ok
         THEN [error |-> FALSE, ret |-> BuildChats(fetch.rows),
               cache |-> Some(BuildChats(fetch.rows)), time |-> t, fetched |-> TRUE]
         ELSE [error |-> TRUE, ret |-> <<>>, cache |-> Some(<<>>), time |-> t,
               fetched |-> TRUE]

\* get_group_chats() at time t with the cache (cache, cacheTime); fetch is what
\* the database gives if it is read. ret is the returned list, error tells
\* that it is the one-element error list.
get_group_chats(cache, cacheTime, t, fetch) ==
    IF cache # None /\ (t - cacheTime) < _GROUP_CHATS_CACHE_TTL
    THEN [error |-> FALSE, ret |-> cache[1], cache |-> cache, time |-> cacheTime,
          fetched |-> FALSE]
    ELSE IF fetch.ok
         THEN [error |-> FALSE, ret |-> BuildChats(fetch.rows),
               cache |-> Some(BuildChats(fetch.rows)), time |-> t, fetched |-> TRUE]
         ELSE [error |-> TRUE, ret |-> <<>>, cache |-> cache, time |-> cacheTime,
               fetched |-> TRUE]

(***************************************************************************)
(* Contact directory adapter                                               *)
(***************************************************************************)
_CACHE_TTL == 300

S_IMAGETYPE == <<"X","-","I","M","A","G","E","T","Y","P","E">>

\* phone.split("X-IMAGETYPE")[0]
BeforeImageType(phone) ==
    LET n == Len(S_IMAGETYPE)
        Hits == {i \in 1..(Len(phone) - n + 1) : SubSeq(phone, i, i + n - 1) = S_IMAGETYPE}
    IN  IF Hits = {} THEN phone
        ELSE SubSeq(phone, 1, (CHOOSE i \in Hits : \A j \in Hits : i <= j) - 1)

\* " ".join(filter(None, [first_name, last_name]))
FullName(first, last) ==
    IF first = <<>> THEN last
    ELSE IF last = <<>> THEN first
    ELSE first \o <<" ">> \o last

\* contacts_map[phone] = name on a dict that keeps insertion order
DictSet(map, phone, name) ==
    IF \E i \in DOMAIN map : map[i].phone = phone
    THEN [i \in DOMAIN map |->
             IF map[i].phone = phone THEN [phone |-> phone, name |-> name] ELSE map[i]]
    ELSE Append(map, [phone |-> phone, name |-> name])

DictHas(map, phone) == \E i \in DOMAIN map : map[i].phone = phone

DictGet(map, phone) == map[CHOOSE i \in DOMAIN map : map[i].phone = phone].name

\* the rows process_contacts keeps (lines 458-473)
KeptRow(row) ==
    /\ row.phone # <<>>
    /\ Strip(FullName(row.first_name, row.last_name)) # <<>>
    /\ normalize_phone_number(BeforeImageType(row.phone)) # <<>>

\* process_contacts: the returned phone -> name map, in insertion order
RECURSIVE ContactsMap(_)
ContactsMap(rows) ==
    IF rows = <<>> THEN <<>>
    ELSE LET row  == rows[Len(rows)]
             rest == ContactsMap(SubSeq(rows, 1, Len(rows) - 1))
         IN  IF KeptRow(row)
             THEN DictSet(rest, normalize_phone_number(BeforeImageType(row.phone)),
                          FullName(row.first_name, row.last_name))
             ELSE rest

\* process_contacts: the phone_to_details it stores in _PHONE_TO_DETAILS_MAP,
\* a function from phone to the details of the last row with that phone
PhoneToDetails(rows) ==
    LET Kept   == {i \in DOMAIN rows : KeptRow(rows[i])}
        Key(i) == normalize_phone_number(BeforeImageType(rows[i].phone))
        Last(p) == CHOOSE i \in Kept : Key(i) = p /\ \A j \in Kept : Key(j) = p => j <= i
    IN  [p \in {Key(i) : i \in Kept} |->
            [first_name |-> Strip(rows[Last(p)].first_name),
             last_name  |-> Strip(rows[Last(p)].last_name),
             nickname   |-> Strip(rows[Last(p)].nickname),
             full_name  |-> FullName(rows[Last(p)].first_name, rows[Last(p)].last_name)]]

\* what one call of get_addressbook_contacts can do:
\*   direct     - the database is read, process_contacts builds both maps
\*   subprocess - the direct read returned an error and the sqlite3 command
\*                line gave the rows: a phone -> name map, no details
\*   failed     - the direct read returned an error and the command line gave
\*                nothing, or an exception was caught: an empty map
ContactFetches ==
    {[via |-> "direct", rows |-> w] : w \in ContactWorlds}
      \cup {[via |-> "subprocess", rows |-> w] : w \in ContactWorlds}
      \cup {[via |-> "failed", rows |-> <<>>]}

\* get_addressbook_contacts: the returned map and the new _PHONE_TO_DETAILS_MAP
\* process_contacts on each address book of the model, evaluated once
ProcessedContacts ==
    [w \in ContactWorlds |-> [map |-> ContactsMap(w), details |-> PhoneToDetails(w)]]

process_contacts(rows) ==
    IF rows \in ContactWorlds THEN ProcessedContacts[rows]
    ELSE [map |-> ContactsMap(rows), details |-> PhoneToDetails(rows)]

get_addressbook_contacts(details, fetch) ==
    IF fetch.via = "direct"
    THEN process_contacts(fetch.rows)
    ELSE IF fetch.via = "subprocess"
         THEN [map |-> process_contacts(fetch.rows).map, details |-> details]
         ELSE [map |-> <<>>, details |-> details]

\* get_cached_contacts() at time t
get_cached_contacts(cache, lastUpdate, details, t, fetch) ==
    IF cache = None \/ (t - lastUpdate) > _CACHE_TTL
    THEN LET got == get_addressbook_contacts(details, fetch)
         IN  [ret |-> got.map, cache |-> Some(got.map), time |-> t,
              details |-> got.details, fetched |-> TRUE, via |-> fetch.via]
    ELSE [ret |-> cache[1], cache |-> cache, time |-> lastUpdate,
          details |-> details, fetched |-> FALSE, via |-> "none"]

(***************************************************************************)
(* Name search                                                             *)
(***************************************************************************)
\* the candidate list of find_contact_by_name (lines 599-608)
RECURSIVE ContactCandidates(_, _)
ContactCandidates(contacts, details) ==
    IF contacts = <<>> THEN <<>>
    ELSE LET c    == Head(contacts)
             nick == IF c.phone \in DOMAIN details THEN details[c.phone].nickname
                     ELSE <<>>
         IN  <<[name |-> c.name, value |-> c.phone]>>
               \o (IF nick # <<>> THEN <<[name |-> nick, value |-> c.phone]>> ELSE <<>>)
               \o ContactCandidates(Tail(contacts), details)

\* a dict that takes every entry as a new one
SeenPutEvery(seen, key, entry) == Append(seen, [key |-> key, entry |-> entry])

\* seen[key] = entry on a dict that keeps insertion order, when the key is
\* new or the score is higher than the stored one
SeenPut(seen, key, entry) ==
    IF \E i \in DOMAIN seen : seen[i].key = key
    THEN [i \in DOMAIN seen |->
             IF seen[i].key = key /\ ScoreLt(seen[i].entry.score, entry.score)
             THEN [key |-> key, entry |-> entry] ELSE seen[i]]
    ELSE Append(seen, [key |-> key, entry |-> entry])

SeenValues(seen) == [i \in DOMAIN seen |-> seen[i].entry]

\* lines 613-624
RECURSIVE DedupContacts(_, _)
DedupContacts(matches, contacts) ==
    IF matches = <<>> THEN <<>>
    ELSE LET m == matches[Len(matches)]
         IN  SeenPut(DedupContacts(SubSeq(matches, 1, Len(matches) - 1), contacts),
                     m.value,
                     [name |-> IF DictHas(contacts, m.value)
                               THEN DictGet(contacts, m.value) ELSE m.name,
                      phone |-> m.value, score |-> m.score, matched_on |-> m.name])

\* find_contact_by_name on the map and details get_cached_contacts returned
\* (lines 598-628)
SearchContacts(name, contacts, details) ==
    SortByScore(SeenValues(DedupContacts(
        fuzzy_match(name, ContactCandidates(contacts, details), Threshold), contacts)))

\* chat.get('display_name') or chat.get('room_name') or chat.get('chat_identifier')
ChatLabel(chat) ==
    IF chat.display_name # <<>> THEN chat.display_name
    ELSE IF chat.room_name # <<>> THEN chat.room_name
    ELSE chat.chat_identifier

GroupEntry(chat, score) ==
    [name |-> ChatLabel(chat), room_name |-> chat.room_name, chat_id |-> chat.rowid,
     applescript_id |-> chat.applescript_id,
     applescript_id_alt |-> chat.applescript_id_alt, score |-> score]

\* lines 149-152
ExactHit(chat, name) ==
    \/ chat.room_name = name
    \/ chat.chat_identifier = name
    \/ chat.applescript_id = name

\* lines 163-176: every chat has a label, the SQL keeps only non-empty room names
GroupCandidates(chats) ==
    [i \in DOMAIN chats |-> [name |-> ChatLabel(chats[i]), value |-> chats[i]]]

\* lines 181-193
RECURSIVE DedupGroups(_)
DedupGroups(matches) ==
    IF matches = <<>> THEN <<>>
    ELSE LET m == matches[Len(matches)]
         IN  SeenPut(DedupGroups(SubSeq(matches, 1, Len(matches) - 1)),
                     m.value.applescript_id, GroupEntry(m.value, m.score))

\* a group search that goes to the fuzzy matching at once
SearchGroupsFuzzyOnly(name, chats) ==
    SortByScore(SeenValues(DedupGroups(
        fuzzy_match(name, GroupCandidates(chats), Threshold))))

\* find_group_chat_by_name on the list get_group_chats returned (lines 148-197)
SearchGroups(name, chats) ==
    IF \E i \in DOMAIN chats : ExactHit(chats[i], name)
    THEN <<GroupEntry(chats[CHOOSE i \in DOMAIN chats :
                          /\ ExactHit(chats[i], name)
                          /\ \A j \in 1..(i - 1) : ~ExactHit(chats[j], name)],
                      ScoreOne)>>
    ELSE SortByScore(SeenValues(DedupGroups(
             fuzzy_match(name, GroupCandidates(chats), Threshold))))

(***************************************************************************)
(* Identifiers a caller passes                                             *)
(***************************************************************************)
S_contact == <<"c","o","n","t","a","c","t",":">>

S_group == <<"g","r","o","u","p",":">>

\* the largest N of the selectors "contact:N" and "group:N" that are tried
MaxSelector == 3

\* selectors: "contact:N" and "group:N" for N in 0..MaxSelector, one with
\* capitals and a blank, one without a number, one with a letter for it
Selectors ==
    {S_contact \o <<DigitSeq[n + 1]>> : n \in 0..MaxSelector}
      \cup {S_group \o <<DigitSeq[n + 1]>> : n \in 0..MaxSelector}
      \cup {S_contact, S_group \o <<"x">>, <<"G","r","o","u","p",":"," ","1">>}

EmailLiterals == {<<"a","@","b",".","c">>}

PhoneLiterals == {<<"+","1"," ","5","5">>}

Names ==
    {<<"S","a","m">>, <<"b","o","b">>, <<"d","e","v">>, <<"w","e","b">>,
     <<"z","e","d">>, <<"k","i","m">>, S_chat1}

Recipients == Selectors \cup EmailLiterals \cup PhoneLiterals \cup Names

\* group_chat: None, True or False
Modes == {"None", "True", "False"}

(***************************************************************************)
(* The searches are pure functions of the identifier and the snapshot, and *)
(* the identifiers and snapshots of this model are finitely many: each     *)
(* search is evaluated once and looked up afterwards.                      *)
(***************************************************************************)
SearchedNames == {Strip(r) : r \in Recipients \ Selectors}

GroupSnapshots == {BuildChats(w) : w \in GroupWorlds}

ContactSnapshots ==
    {<<ContactsMap(w), PhoneToDetails(v)>> :
        w \in ContactWorlds \cup {<<>>}, v \in ContactWorlds \cup {<<>>}}

GroupSearches ==
    [name \in SearchedNames, chats \in GroupSnapshots |-> SearchGroups(name, chats)]

ContactSearches ==
    [name \in SearchedNames, snapshot \in ContactSnapshots |->
        SearchContacts(name, snapshot[1], snapshot[2])]

\* find_group_chat_by_name(name), got being what its get_group_chats() returned
find_group_chat_by_name(name, got) ==
    IF got.error THEN <<>>
    ELSE IF name \in SearchedNames /\ got.ret \in GroupSnapshots
         THEN GroupSearches[name, got.ret]
         ELSE SearchGroups(name, got.ret)

\* find_contact_by_name(name), contacts being what its get_cached_contacts()
\* returned and details the _PHONE_TO_DETAILS_MAP it left
find_contact_by_name(name, contacts, details) ==
    IF name \in SearchedNames /\ <<contacts, details>> \in ContactSnapshots
    THEN ContactSearches[name, <<contacts, details>>]
    ELSE SearchContacts(name, contacts, details)

(***************************************************************************)
(* Selector parsing                                                        *)
(***************************************************************************)
\* recipient.split(":", 1)[1]: what follows the first colon
AfterColon(s) ==
    LET i == CHOOSE i \in DOMAIN s : s[i] = ":" /\ \A j \in 1..(i - 1) : s[j] # ":"
    IN  SubSeq(s, i + 1, Len(s))

RECURSIVE DigitsValue(_)
DigitsValue(s) ==
    IF s = <<>> THEN 0
    ELSE 10 * DigitsValue(SubSeq(s, 1, Len(s) - 1)) + (IndexOf(DigitSeq, s[Len(s)]) - 1)

\* int(s): an optional sign and digits, whitespace around them ignored;
\* ok is FALSE where int raises ValueError
ParseInt(s) ==
    LET t      == Strip(s)
        signed == t # <<>> /\ Head(t) \in {"+", "-"}
        digits == IF signed THEN Tail(t) ELSE t
    IN  IF digits # <<>> /\ \A i \in DOMAIN digits : IsDigit(digits[i])
        THEN [ok |-> TRUE,
              value |-> IF signed /\ Head(t) = "-" THEN 0 - DigitsValue(digits)
                        ELSE DigitsValue(digits)]
        ELSE [ok |-> FALSE, value |-> 0]

\* a selection that takes the last entry when the number is past the end
ParseSelectionClamped(recipient, matches) ==
    LET part == AfterColon(recipient)
        n    == ParseInt(part)
    IN  IF Strip(part) = <<>> THEN [outcome |-> "InvalidFormat", index |-> 0]
        ELSE IF ~n.ok THEN [outcome |-> "NotANumber", index |-> 0]
        ELSE IF n.value - 1 < 0 THEN [outcome |-> "NotPositive", index |-> 0]
        ELSE IF matches = <<>> THEN [outcome |-> "NoActiveSession", index |-> 0]
        ELSE IF n.value - 1 >= Len(matches)
             THEN [outcome |-> "Selected", index |-> Len(matches) - 1]
        ELSE [outcome |-> "Selected", index |-> n.value - 1]

\* lines 656-672 and 694-710: the checks of a selector against the session
\* list of its kind; index is 0-based where the outcome is "Selected"
ParseSelection(recipient, matches) ==
    LET part == AfterColon(recipient)
        n    == ParseInt(part)
    IN  IF Strip(part) = <<>> THEN [outcome |-> "InvalidFormat", index |-> 0]
        ELSE IF ~n.ok THEN [outcome |-> "NotANumber", index |-> 0]
        ELSE IF n.value - 1 < 0 THEN [outcome |-> "NotPositive", index |-> 0]
        ELSE IF matches = <<>> THEN [outcome |-> "NoActiveSession", index |-> 0]
        ELSE IF n.value - 1 >= Len(matches)
             THEN [outcome |-> "IndexOutOfRange", index |-> 0]
        ELSE [outcome |-> "Selected", index |-> n.value - 1]

(***************************************************************************)
(* Transport                                                               *)
(***************************************************************************)
\* what the Messages application does with one _send_message_to_recipient:
\* the file-based script works; or it fails and the direct script reports
\* success, an error, or an output that is neither
Deliveries == {"file_ok", "direct_ok", "direct_unknown", "direct_error"}

\* a transport that runs the file-based script a second time before the
\* direct script
_send_message_to_recipient_retrying(recipient, delivery) ==
    [error    |-> delivery = "direct_error",
     attempts |-> IF delivery = "file_ok"
                  THEN <<[to |-> recipient, via |-> "file", result |-> "ok"]>>
                  ELSE <<[to |-> recipient, via |-> "file", result |-> "error"],
                         [to |-> recipient, via |-> "file", result |-> "error"],
                         [to |-> recipient, via |-> "direct",
                          result |-> IF delivery = "direct_ok" THEN "ok"
                                     ELSE IF delivery = "direct_unknown" THEN "unknown"
                                     ELSE "error"]>>]

\* _send_message_to_recipient: the transport attempts made and whether the
\* returned text starts with "Error"
_send_message_to_recipient(recipient, delivery) ==
    [error    |-> delivery = "direct_error",
     attempts |-> IF delivery = "file_ok"
                  THEN <<[to |-> recipient, via |-> "file", result |-> "ok"]>>
                  ELSE <<[to |-> recipient, via |-> "file", result |-> "error"],
                         [to |-> recipient, via |-> "direct",
                          result |-> IF delivery = "direct_ok" THEN "ok"
                                     ELSE IF delivery = "direct_unknown" THEN "unknown"
                                     ELSE "error"]>>]

\* a group send that tries the alternative chat id whatever the first did
SendToGroupBoth(group, d1, d2) ==
    LET first  == _send_message_to_recipient(group.applescript_id, d1)
        second == _send_message_to_recipient(group.applescript_id_alt, d2)
    IN  [error |-> second.error, attempts |-> first.attempts \o second.attempts,
         address |-> group.applescript_id_alt]

\* lines 676-679 and 759-762: the primary chat id, then the alternative one
SendToGroup(group, d1, d2) ==
    LET first == _send_message_to_recipient(group.applescript_id, d1)
    IN  IF first.error /\ group.applescript_id_alt # <<>>
        THEN LET second == _send_message_to_recipient(group.applescript_id_alt, d2)
             IN  [error |-> second.error, attempts |-> first.attempts \o second.attempts,
                  address |-> group.applescript_id_alt]
        ELSE [error |-> first.error, attempts |-> first.attempts,
              address |-> group.applescript_id]

SendToContact(phone, d1) ==
    LET sent == _send_message_to_recipient(phone, d1)
    IN  [error |-> sent.error, attempts |-> sent.attempts, address |-> phone]

(***************************************************************************)
(* State                                                                   *)
(***************************************************************************)
VARIABLES
    now,                        \* time.time()
    _GROUP_CHATS_CACHE,         \* None or Some(list of chats)
    _GROUP_CHATS_CACHE_TIME,
    _CONTACTS_CACHE,            \* None or Some(phone -> name map)
    _LAST_CACHE_UPDATE,
    _PHONE_TO_DETAILS_MAP,      \* phone -> details
    send_recent_matches,        \* send_message.recent_matches
    send_recent_group_matches,  \* send_message.recent_group_matches
    hist_recent_matches,        \* get_recent_messages.recent_matches
    hist_recent_group_matches,  \* get_recent_messages.recent_group_matches
    call,                       \* the call being answered: its arguments and
                                \* what it did; NoCall between two calls
    previous,                   \* the call answered before, where it is recorded
    callers,                    \* who makes the call, and what each caller was
                                \* shown last, where callers are told apart
    text                        \* a string given to a normalizer, and what the
                                \* normalizer made of it

vars == <<now, _GROUP_CHATS_CACHE, _GROUP_CHATS_CACHE_TIME, _CONTACTS_CACHE,
          _LAST_CACHE_UPDATE, _PHONE_TO_DETAILS_MAP, send_recent_matches,
          send_recent_group_matches, hist_recent_matches,
          hist_recent_group_matches, call, previous, callers, text>>

caches == <<_GROUP_CHATS_CACHE, _GROUP_CHATS_CACHE_TIME, _CONTACTS_CACHE,
            _LAST_CACHE_UPDATE, _PHONE_TO_DETAILS_MAP>>

sendSession == <<send_recent_matches, send_recent_group_matches>>

histSession == <<hist_recent_matches, hist_recent_group_matches>>

\* the number of clock steps taken
MaxTicks == 1

\* one clock step: the time-to-live of the caches
TickSize == _CACHE_TTL

StartTime == 2 * _CACHE_TTL

\* call.read tells that the call read a session list; call.fetches lists the
\* directory reads made, call.contact_fetch how the contact directory was read
\* where a name search of send_message read it ("direct", "subprocess" or
\* "failed"), call.attempts the transport attempts made,
\* call.before_matches and call.before_group_matches are the session lists of
\* the function called as they were when the call began;
\* call.before_group_cache, call.before_group_time, call.before_contacts_cache
\* and call.before_contacts_time are the two caches and their fetch times as
\* they were when the call began
NoCall ==
    [op |-> "none", recipient |-> <<>>, group_chat |-> "None", outcome |-> "none",
     via |-> "none", target |-> "none", address |-> <<>>, attempts |-> <<>>,
     found_groups |-> <<>>, found_contacts |-> <<>>,
     fetches |-> <<>>, contact_fetch |-> "none", read |-> FALSE,
     group_search |-> "none", contact_search |-> "none",
     report |-> [groups |-> <<>>, contacts |-> <<>>],
     before_matches |-> <<>>, before_group_matches |-> <<>>,
     before_group_cache |-> None, before_group_time |-> 0,
     before_contacts_cache |-> None, before_contacts_time |-> 0]

\* what the caller has of a call: the arguments given, the answer, the
\* address the transport was first asked to reach, the lists found
Answer(c) ==
    [op |-> c.op, recipient |-> c.recipient, group_chat |-> c.group_chat,
     via |-> c.via, outcome |-> c.outcome, target |-> c.target,
     first |-> IF c.attempts = <<>> THEN <<>> ELSE c.attempts[1].to,
     found_groups |-> c.found_groups, found_contacts |-> c.found_contacts,
     group_search |-> c.group_search, contact_search |-> c.contact_search]

\* a call that was answered, with the directory snapshots it left
NoPrevious ==
    [call |-> Answer(NoCall), gcache |-> None, ccache |-> None, details |-> <<>>]

\* the logical callers of one process
Callers == {"A", "B"}

\* the strings given to the normalizers: letters, a digit, whitespace, the
\* apostrophe and the hyphen, punctuation, an emoticon, a CJK letter
TextCharacters == {"a", "Z", "7", " ", "\t", "'", "-", "!", "(", "_", "U+1F600", "U+4E2D"}

MaxTextLen == 3

Texts == UNION {[1..n -> TextCharacters] : n \in 0..MaxTextLen}

\* given is the argument; once and twice are what the normalizer named by
\* function returned for given and for its own result, None before the call;
\* for a phone lookup, stored is the phone that the directory holds, tried
\* lists the forms of given that were looked up, found tells that the
\* lookup gave the stored phone
NoText ==
    [function |-> "none", given |-> <<>>, once |-> None, twice |-> None,
     stored |-> <<>>, tried |-> <<>>, found |-> FALSE, score |-> None]

\* queries and labels for the matcher; for a matching, given is the query,
\* stored the label, score the score of the label if the matcher lists it
MatchQueries ==
    {<<"A", "l", "e", "x">>, <<"a", "l", "e", "x">>, <<"A", "l", "e", "x", "i", "s">>, <<"A", "L", "E", "X", " ", "S", "M", "I", "T", "H">>, <<"S", "m", "i", "t", "h">>, <<"A", "l">>,
     <<"A", "l", "e", "x", " ", "S", "m", "i", "t">>, <<"J", "o", " ", "S", "m", "i", "t", "h", "s", "o">>, <<"A", "l", "e", "x", "a", "n", "d", "r", "i", "a">>, <<"S", "m", "i", "t">>, <<" ", "a", "l", "e", "x", "!">>, <<"z", "e", "d">>}

MatchLabels ==
    {<<"A", "l", "e", "x", " ", "S", "m", "i", "t", "h">>, <<"A", "l", "e", "x">>, <<"J", "o", " ", "S", "m", "i", "t", "h", "s", "o", "n">>, <<"A", "l", "e", "x", "a", "n", "d", "r", "i", "a", " ", "A", "l", "e", "x", "a", "n", "d", "r", "i", "n", "a">>, <<"S", "m", "i", "t", "h", ",", " ", "A", "l", "e", "x">>,
     <<"a", "l", "e", "x", "i", "s">>, <<"A", "l">>, <<"A", "l", "e", "x", "a", "n", "d", "r", "i", "n", "a">>, <<"S", "a", "m", " ", " ", "A", "l", "e", "x", "-", "S", "m", "i", "t", "h">>}

\* phone queries: a country code or none, the area code and the number, each
\* written in several ways
CountryCodes == {<<>>, <<"1">>, <<"+", "1", " ">>, <<"2">>, <<"1", "1">>}

AreaCodes == {<<"4", "1", "5">>, <<"(", "4", "1", "5", ")", " ">>, <<"4", "1", "5", "-">>}

LocalNumbers == {<<"5", "5", "5", "0", "1", "0", "0">>, <<"5", "5", "5", "-", "0", "1", "0", "0">>, <<"5", "5", "5", "0", "1", "0">>, <<"5", "5", "5", "0", "1", "0", "0", "0">>}

PhoneQueries == {c \o a \o n : c \in CountryCodes, a \in AreaCodes, n \in LocalNumbers}

\* the phone of the one entry of the directory: a handle id, a key of the
\* contact map
StoredPhones == {<<"1", "4", "1", "5", "5", "5", "5", "0", "1", "0", "0">>, <<"4", "1", "5", "5", "5", "5", "0", "1", "0", "0">>, <<"+", "1", "4", "1", "5", "5", "5", "5", "0", "1", "0", "0">>}

\* current makes the call being answered; latest is the caller whose search
\* stored the session last; shown[c] lists the phones of the contacts that
\* the last Ambiguous report given to c numbered, in the order of the report
NoCallers ==
    [current |-> "A", latest |-> "A", shown |-> [c \in Callers |-> <<>>]]

\* lines 47-48, 264-265, 568, 796-798 and 1235-1237
Init ==
    /\ now = StartTime
    /\ _GROUP_CHATS_CACHE = None
    /\ _GROUP_CHATS_CACHE_TIME = 0
    /\ _CONTACTS_CACHE = None
    /\ _LAST_CACHE_UPDATE = 0
    /\ _PHONE_TO_DETAILS_MAP = <<>>
    /\ send_recent_matches = <<>>
    /\ send_recent_group_matches = <<>>
    /\ hist_recent_matches = <<>>
    /\ hist_recent_group_matches = <<>>
    /\ call = NoCall
    /\ previous = NoPrevious
    /\ callers = NoCallers
    /\ text = NoText

\* the directories, the sessions and the caches between two calls, and a
\* string for a normalizer
InitTexts ==
    /\ now = StartTime
    /\ _GROUP_CHATS_CACHE = None
    /\ _GROUP_CHATS_CACHE_TIME = 0
    /\ _CONTACTS_CACHE = None
    /\ _LAST_CACHE_UPDATE = 0
    /\ _PHONE_TO_DETAILS_MAP = <<>>
    /\ send_recent_matches = <<>>
    /\ send_recent_group_matches = <<>>
    /\ hist_recent_matches = <<>>
    /\ hist_recent_group_matches = <<>>
    /\ call = NoCall
    /\ previous = NoPrevious
    /\ callers = NoCallers
    /\ text \in {[NoText EXCEPT !.given = s] : s \in Texts}

\* the same, and a query with a label for the matcher
InitMatches ==
    /\ now = StartTime
    /\ _GROUP_CHATS_CACHE = None
    /\ _GROUP_CHATS_CACHE_TIME = 0
    /\ _CONTACTS_CACHE = None
    /\ _LAST_CACHE_UPDATE = 0
    /\ _PHONE_TO_DETAILS_MAP = <<>>
    /\ send_recent_matches = <<>>
    /\ send_recent_group_matches = <<>>
    /\ hist_recent_matches = <<>>
    /\ hist_recent_group_matches = <<>>
    /\ call = NoCall
    /\ previous = NoPrevious
    /\ callers = NoCallers
    /\ text \in {[NoText EXCEPT !.given = q, !.stored = l] :
                    q \in MatchQueries, l \in MatchLabels}

\* the same, and a phone query with the phone the directory holds
InitPhones ==
    /\ now = StartTime
    /\ _GROUP_CHATS_CACHE = None
    /\ _GROUP_CHATS_CACHE_TIME = 0
    /\ _CONTACTS_CACHE = None
    /\ _LAST_CACHE_UPDATE = 0
    /\ _PHONE_TO_DETAILS_MAP = <<>>
    /\ send_recent_matches = <<>>
    /\ send_recent_group_matches = <<>>
    /\ hist_recent_matches = <<>>
    /\ hist_recent_group_matches = <<>>
    /\ call = NoCall
    /\ previous = NoPrevious
    /\ callers = NoCallers
    /\ text \in {[NoText EXCEPT !.given = q, !.stored = p] :
                    q \in PhoneQueries, p \in StoredPhones}

\* no call is being answered
Idle == call = NoCall

\* the clock advances between calls
Tick ==
    /\ Idle
    /\ now < StartTime + MaxTicks * TickSize
    /\ now' = now + TickSize
    /\ UNCHANGED <<caches, sendSession, histSession, call, previous, callers, text>>

\* what a call leaves as it is unless a branch says otherwise; matches and
\* group_matches are the session lists of the function called
Unchanged(op, recipient, group_chat, matches, group_matches) ==
    [matches |-> matches, group_matches |-> group_matches,
     gcache |-> _GROUP_CHATS_CACHE, gtime |-> _GROUP_CHATS_CACHE_TIME,
     ccache |-> _CONTACTS_CACHE, ctime |-> _LAST_CACHE_UPDATE,
     details |-> _PHONE_TO_DETAILS_MAP,
     call |-> [NoCall EXCEPT !.op = op, !.recipient = recipient,
                             !.group_chat = group_chat,
                             !.before_matches = matches,
                             !.before_group_matches = group_matches,
                             !.before_group_cache = _GROUP_CHATS_CACHE,
                             !.before_group_time = _GROUP_CHATS_CACHE_TIME,
                             !.before_contacts_cache = _CONTACTS_CACHE,
                             !.before_contacts_time = _LAST_CACHE_UPDATE]]

\* a fetch result is drawn only where a call reads the directory
NeedsGroupFetch(cache, cacheTime) ==
    ~(cache # None /\ (now - cacheTime) < _GROUP_CHATS_CACHE_TTL)

NeedsContactFetch(cache, lastUpdate) ==
    cache = None \/ (now - lastUpdate) > _CACHE_TTL

AnyGroupFetch == [ok |-> FALSE, rows |-> <<>>]

AnyContactFetch == [via |-> "failed", rows |-> <<>>]

(***************************************************************************)
(* send_message                                                            *)
(***************************************************************************)
\* a phone test that does not admit the blank
IsPhoneLiteralNoBlank(recipient) ==
    \A i \in DOMAIN recipient :
        IsDigit(recipient[i]) \/ recipient[i] \in {"+", "-", "(", ")"}

\* line 730
IsPhoneLiteral(recipient) ==
    \A i \in DOMAIN recipient :
        IsDigit(recipient[i]) \/ recipient[i] \in {"+", "-", " ", "(", ")"}

\* a branching that has no email branch
SendBranchNoEmail(recipient) ==
    IF StartsWith(Lower(recipient), S_group) THEN "group_selector"
    ELSE IF StartsWith(Lower(recipient), S_contact) THEN "contact_selector"
    ELSE IF IsPhoneLiteral(recipient) THEN "phone"
    ELSE "name"

\* which branch of send_message takes the stripped recipient (lines 650, 688,
\* 724, 730 and 737)
SendBranch(recipient) ==
    IF StartsWith(Lower(recipient), S_group) THEN "group_selector"
    ELSE IF StartsWith(Lower(recipient), S_contact) THEN "contact_selector"
    ELSE IF Contains(recipient, "@") /\ Contains(recipient, ".") THEN "email"
    ELSE IF IsPhoneLiteral(recipient) THEN "phone"
    ELSE "name"

\* a directory that the call does not read
GroupsNotRead ==
    [error |-> FALSE, ret |-> <<>>, cache |-> _GROUP_CHATS_CACHE,
     time |-> _GROUP_CHATS_CACHE_TIME, fetched |-> FALSE]

ContactsNotRead ==
    [ret |-> <<>>, cache |-> _CONTACTS_CACHE, time |-> _LAST_CACHE_UPDATE,
     details |-> _PHONE_TO_DETAILS_MAP, fetched |-> FALSE, via |-> "none"]

\* a group-only mode that does not look at the directory before the search
SendGroupCheckSkipped(branch, group_chat, gfetch) == GroupsNotRead

\* lines 739-742: get_group_chats() of the group-only mode
SendGroupCheck(branch, group_chat, gfetch) ==
    IF branch = "name" /\ group_chat = "True"
    THEN get_group_chats(_GROUP_CHATS_CACHE, _GROUP_CHATS_CACHE_TIME, now, gfetch)
    ELSE GroupsNotRead

\* line 744: get_group_chats() inside find_group_chat_by_name, after the
\* check g1
SendGroupRead(branch, group_chat, g1, gfetch) ==
    IF branch = "name" /\ group_chat # "False" /\ ~g1.error
    THEN get_group_chats(g1.cache, g1.time, now, gfetch)
    ELSE [g1 EXCEPT !.fetched = FALSE]

\* line 745: get_cached_contacts() inside find_contact_by_name
SendContactRead(branch, group_chat, g1, cfetch) ==
    IF branch = "name" /\ group_chat # "True"
    THEN get_cached_contacts(_CONTACTS_CACHE, _LAST_CACHE_UPDATE,
                             _PHONE_TO_DETAILS_MAP, now, cfetch)
    ELSE ContactsNotRead

\* line 744
SendGroupMatches(branch, recipient, group_chat, g1, g2) ==
    IF branch = "name" /\ group_chat # "False" /\ ~g1.error
    THEN find_group_chat_by_name(recipient, g2)
    ELSE <<>>

\* a contact search that is made in every mode, in the group-only mode on
\* the snapshot that is cached
SendContactMatchesAnyMode(branch, recipient, group_chat, c) ==
    IF branch = "name"
    THEN find_contact_by_name(recipient,
                              IF group_chat # "True" THEN c.ret
                              ELSE IF _CONTACTS_CACHE = None THEN <<>>
                              ELSE _CONTACTS_CACHE[1],
                              c.details)
    ELSE <<>>

\* a contact search that is made only where a group snapshot is at hand
SendContactMatchesWithGroups(branch, recipient, group_chat, c) ==
    IF branch = "name" /\ group_chat # "True" /\ _GROUP_CHATS_CACHE # None
    THEN find_contact_by_name(recipient, c.ret, c.details)
    ELSE <<>>

\* line 745
SendContactMatches(branch, recipient, group_chat, c) ==
    IF branch = "name" /\ group_chat # "True"
    THEN find_contact_by_name(recipient, c.ret, c.details)
    ELSE <<>>

\* the directory reads a call made, in their order
Fetched(got, directory) == IF got.fetched THEN <<directory>> ELSE <<>>

\* a mode test that lets every group selector through
GroupSelectorNeverRejected(group_chat) == FALSE

\* line 653: the group selector in contact-only mode
GroupSelectorRejected(group_chat) == group_chat = "False"

\* line 691: the contact selector in group-only mode
ContactSelectorRejected(group_chat) == group_chat = "True"

\* a selector send that keeps the session whatever the send did
KeptAfterSelectorSend(sent, list) == list

\* a selector send that clears the session whatever the send did
ClearedAfterSelectorSend(sent, list) == <<>>

\* lines 681-683 and 716-718: a session list after the send of a selector
AfterSelectorSend(sent, list) == IF sent.error THEN list ELSE <<>>

\* lines 650-686: "group:N"
SendGroupSelector(recipient, group_chat, d1, d2) ==
    LET base == Unchanged("send", recipient, group_chat,
                          send_recent_matches, send_recent_group_matches)
        sel  == ParseSelection(recipient, send_recent_group_matches)
        read == sel.outcome \in {"NoActiveSession", "IndexOutOfRange", "Selected"}
    IN  IF GroupSelectorRejected(group_chat)
        THEN [base EXCEPT !.call.outcome = "ModeConflict", !.call.via = "group_selector"]
        ELSE IF sel.outcome # "Selected"
        THEN [base EXCEPT !.call.outcome = sel.outcome, !.call.via = "group_selector",
                          !.call.read = read]
        ELSE LET group == send_recent_group_matches[sel.index + 1]
                 sent  == SendToGroup(group, d1, d2)
             IN  [base EXCEPT
                    !.matches = AfterSelectorSend(sent, @),
                    !.group_matches = AfterSelectorSend(sent, @),
                    !.call.outcome = IF sent.error THEN "SendFailed" ELSE "Sent",
                    !.call.via = "group_selector", !.call.target = "group",
                    !.call.address = sent.address, !.call.attempts = sent.attempts,
                    !.call.read = TRUE]

\* a contact selector that reads the list of get_recent_messages
SendContactSelectorOfHistory(recipient, group_chat, d1) ==
    LET base == Unchanged("send", recipient, group_chat,
                          send_recent_matches, send_recent_group_matches)
        sel  == ParseSelection(recipient, hist_recent_matches)
        read == sel.outcome \in {"NoActiveSession", "IndexOutOfRange", "Selected"}
    IN  IF ContactSelectorRejected(group_chat)
        THEN [base EXCEPT !.call.outcome = "ModeConflict", !.call.via = "contact_selector"]
        ELSE IF sel.outcome # "Selected"
        THEN [base EXCEPT !.call.outcome = sel.outcome, !.call.via = "contact_selector",
                          !.call.read = read]
        ELSE LET contact == hist_recent_matches[sel.index + 1]
                 sent    == SendToContact(contact.phone, d1)
             IN  [base EXCEPT
                    !.matches = AfterSelectorSend(sent, @),
                    !.group_matches = AfterSelectorSend(sent, @),
                    !.call.outcome = IF sent.error THEN "SendFailed" ELSE "Sent",
                    !.call.via = "contact_selector", !.call.target = "contact",
                    !.call.address = sent.address, !.call.attempts = sent.attempts,
                    !.call.read = TRUE]

\* a contact selector that looks the picked contact's name up in the cached
\* directory and sends to the phone it has there
SendContactSelectorOfCache(recipient, group_chat, d1) ==
    LET base == Unchanged("send", recipient, group_chat,
                          send_recent_matches, send_recent_group_matches)
        sel  == ParseSelection(recipient, send_recent_matches)
        read == sel.outcome \in {"NoActiveSession", "IndexOutOfRange", "Selected"}
    IN  IF ContactSelectorRejected(group_chat)
        THEN [base EXCEPT !.call.outcome = "ModeConflict", !.call.via = "contact_selector"]
        ELSE IF sel.outcome # "Selected"
        THEN [base EXCEPT !.call.outcome = sel.outcome, !.call.via = "contact_selector",
                          !.call.read = read]
        ELSE LET contact == send_recent_matches[sel.index + 1]
                 cached  == IF _CONTACTS_CACHE = None THEN <<>> ELSE _CONTACTS_CACHE[1]
                 named   == {i \in DOMAIN cached : cached[i].name = contact.name}
                 phone   == IF named = {} THEN contact.phone
                            ELSE cached[CHOOSE i \in named : \A j \in named : i <= j].phone
                 sent    == SendToContact(phone, d1)
             IN  [base EXCEPT
                    !.matches = AfterSelectorSend(sent, @),
                    !.group_matches = AfterSelectorSend(sent, @),
                    !.call.outcome = IF sent.error THEN "SendFailed" ELSE "Sent",
                    !.call.via = "contact_selector", !.call.target = "contact",
                    !.call.address = sent.address, !.call.attempts = sent.attempts,
                    !.call.read = TRUE]

\* lines 688-721: "contact:N"
SendContactSelector(recipient, group_chat, d1) ==
    LET base == Unchanged("send", recipient, group_chat,
                          send_recent_matches, send_recent_group_matches)
        sel  == ParseSelection(recipient, send_recent_matches)
        read == sel.outcome \in {"NoActiveSession", "IndexOutOfRange", "Selected"}
    IN  IF ContactSelectorRejected(group_chat)
        THEN [base EXCEPT !.call.outcome = "ModeConflict", !.call.via = "contact_selector"]
        ELSE IF sel.outcome # "Selected"
        THEN [base EXCEPT !.call.outcome = sel.outcome, !.call.via = "contact_selector",
                          !.call.read = read]
        ELSE LET contact == send_recent_matches[sel.index + 1]
                 sent    == SendToContact(contact.phone, d1)
             IN  [base EXCEPT
                    !.matches = AfterSelectorSend(sent, @),
                    !.group_matches = AfterSelectorSend(sent, @),
                    !.call.outcome = IF sent.error THEN "SendFailed" ELSE "Sent",
                    !.call.via = "contact_selector", !.call.target = "contact",
                    !.call.address = sent.address, !.call.attempts = sent.attempts,
                    !.call.read = TRUE]

\* a literal send that ends the session as the send of a selector does
SendLiteralClearing(recipient, group_chat, via, address, d1) ==
    LET base == Unchanged("send", recipient, group_chat,
                          send_recent_matches, send_recent_group_matches)
        sent == SendToContact(address, d1)
    IN  IF group_chat = "True"
        THEN [base EXCEPT !.call.outcome = "ModeConflict", !.call.via = via]
        ELSE [base EXCEPT
                !.matches = AfterSelectorSend(sent, @),
                !.group_matches = AfterSelectorSend(sent, @),
                !.call.outcome = IF sent.error THEN "SendFailed" ELSE "Sent",
                !.call.via = via, !.call.target = "contact",
                !.call.address = sent.address, !.call.attempts = sent.attempts]

\* lines 723-735: an email address or a phone number is sent to as it is
SendLiteral(recipient, group_chat, via, address, d1) ==
    LET base == Unchanged("send", recipient, group_chat,
                          send_recent_matches, send_recent_group_matches)
        sent == SendToContact(address, d1)
    IN  IF group_chat = "True"
        THEN [base EXCEPT !.call.outcome = "ModeConflict", !.call.via = via]
        ELSE [base EXCEPT
                !.call.outcome = IF sent.error THEN "SendFailed" ELSE "Sent",
                !.call.via = via, !.call.target = "contact",
                !.call.address = sent.address, !.call.attempts = sent.attempts]

\* a single group wins whatever the contact search found
SingleGroupFirst(group_matches, contact_matches) == Len(group_matches) = 1

\* a single group match that is not sent to but asked about
SingleGroupNever(group_matches, contact_matches) == FALSE

\* line 754: has_groups and not has_contacts and len(group_matches) == 1
SingleGroupOnly(group_matches, contact_matches) ==
    /\ Len(group_matches) > 0
    /\ ~(Len(contact_matches) > 0)
    /\ Len(group_matches) = 1

\* line 765: has_contacts and not has_groups and len(contact_matches) == 1
SingleContactOnly(group_matches, contact_matches) ==
    /\ Len(contact_matches) > 0
    /\ ~(Len(group_matches) > 0)
    /\ Len(contact_matches) = 1

\* a single match that leaves the session list alone
KeptAfterSingleMatch(list) == list

\* lines 756-757 and 767-768: a session list after a single match
AfterSingleMatch(list) == <<>>

\* an ambiguous search that stores a list only when it is not empty
StoredIfFound(found, list) == IF found = <<>> THEN list ELSE found

\* an ambiguous search that leaves a list that is held as it is
KeptIfHeld(found, list) == IF list = <<>> THEN found ELSE list

\* lines 773-774: a session list after an ambiguous search that found the
\* matches of its kind
AfterAmbiguous(found, list) == found

\* lines 780, 783, 788, 792, 1025, 1028, 1035 and 1052: the numbered lines
\* of enumerate(matches[:cap]), each with the number i + 1 it is printed with
ReportLines(matches, cap) ==
    [i \in 1..(IF Len(matches) < cap THEN Len(matches) ELSE cap) |->
        [number |-> (i - 1) + 1, entry |-> matches[i]]]

\* the cap of each list when both are listed, and of the one list listed
CapOfBoth == 5

CapOfOne == 10

\* a report that lists ten of each list in every case
AmbiguousReportOfTen(group_matches, contact_matches) ==
    [groups |-> ReportLines(group_matches, CapOfOne),
     contacts |-> ReportLines(contact_matches, CapOfOne)]

\* lines 776-793: the lists of the report of an ambiguous search
AmbiguousReport(group_matches, contact_matches) ==
    IF Len(group_matches) > 0 /\ Len(contact_matches) > 0
    THEN [groups |-> ReportLines(group_matches, CapOfBoth),
          contacts |-> ReportLines(contact_matches, CapOfBoth)]
    ELSE IF Len(group_matches) > 0
    THEN [groups |-> ReportLines(group_matches, CapOfOne), contacts |-> <<>>]
    ELSE [groups |-> <<>>, contacts |-> ReportLines(contact_matches, CapOfOne)]

\* lines 737-793: the name search and what is made of its matches; g1, g2 and
\* c are what the directory reads returned
SendByName(recipient, group_chat, g1, g2, c, group_matches, contact_matches, d1, d2) ==
    LET base == Unchanged("send", recipient, group_chat,
                          send_recent_matches, send_recent_group_matches)
        has_groups   == Len(group_matches) > 0
        has_contacts == Len(contact_matches) > 0
        searched == [base EXCEPT
                       !.gcache = g2.cache, !.gtime = g2.time,
                       !.ccache = c.cache, !.ctime = c.time, !.details = c.details,
                       !.call.via = "name",
                       !.call.fetches = Fetched(g1, "groups") \o Fetched(g2, "groups")
                                          \o Fetched(c, "contacts"),
                       !.call.contact_fetch = c.via,
                       !.call.group_search =
                          IF group_chat = "False" THEN "none"
                          ELSE IF g2.error THEN "error" ELSE "made",
                       !.call.contact_search =
                          IF group_chat = "True" THEN "none" ELSE "made",
                       !.call.found_groups = group_matches,
                       !.call.found_contacts = contact_matches]
    IN  IF group_chat = "True" /\ g1.error
        THEN [base EXCEPT !.call.outcome = "DirectoryError", !.call.via = "name",
                          !.call.fetches = Fetched(g1, "groups")]
        ELSE IF ~has_groups /\ ~has_contacts
        THEN [searched EXCEPT !.call.outcome = "NotFound"]
        ELSE IF SingleGroupOnly(group_matches, contact_matches)
        THEN LET sent == SendToGroup(group_matches[1], d1, d2)
             IN  [searched EXCEPT
                    !.matches = AfterSingleMatch(@),
                    !.group_matches = AfterSingleMatch(@),
                    !.call.outcome = IF sent.error THEN "SendFailed" ELSE "Sent",
                    !.call.target = "group", !.call.address = sent.address,
                    !.call.attempts = sent.attempts]
        ELSE IF SingleContactOnly(group_matches, contact_matches)
        THEN LET sent == SendToContact(contact_matches[1].phone, d1)
             IN  [searched EXCEPT
                    !.matches = AfterSingleMatch(@),
                    !.group_matches = AfterSingleMatch(@),
                    !.call.outcome = IF sent.error THEN "SendFailed" ELSE "Sent",
                    !.call.target = "contact", !.call.address = sent.address,
                    !.call.attempts = sent.attempts]
        ELSE [searched EXCEPT
                !.matches = AfterAmbiguous(contact_matches, @),
                !.group_matches = AfterAmbiguous(group_matches, @),
                !.call.report = AmbiguousReport(group_matches, contact_matches),
                !.call.outcome = "Ambiguous"]

\* send_message(recipient, message, group_chat) on the stripped recipient
send_message(recipient, group_chat, branch, g1, g2, c, group_matches, contact_matches, d1, d2) ==
    IF branch = "group_selector"
    THEN SendGroupSelector(recipient, group_chat, d1, d2)
    ELSE IF branch = "contact_selector"
    THEN SendContactSelector(recipient, group_chat, d1)
    ELSE IF branch = "email"
    THEN SendLiteral(recipient, group_chat, "email", recipient, d1)
    ELSE IF branch = "phone"
    THEN SendLiteral(recipient, group_chat, "phone", SelectSeq(recipient, IsDigit), d1)
    ELSE SendByName(recipient, group_chat, g1, g2, c,
                    group_matches, contact_matches, d1, d2)

\* a fetch result is drawn only where the call reads the directory
SendGroupFetches(branch, group_chat) ==
    IF /\ branch = "name"
       /\ group_chat # "False"
       /\ NeedsGroupFetch(_GROUP_CHATS_CACHE, _GROUP_CHATS_CACHE_TIME)
    THEN GroupFetches ELSE {AnyGroupFetch}

SendContactFetches(branch, group_chat) ==
    IF /\ branch = "name"
       /\ group_chat # "True"
       /\ NeedsContactFetch(_CONTACTS_CACHE, _LAST_CACHE_UPDATE)
    THEN ContactFetches ELSE {AnyContactFetch}

\* a delivery result is drawn only for the attempts the call makes
FirstDeliveries(probe) ==
    IF probe.call.attempts = <<>> THEN {"file_ok"} ELSE Deliveries

SecondDeliveries(probe, d1) ==
    IF probe.call.target = "group" /\ d1 = "direct_error" THEN Deliveries
    ELSE {"file_ok"}

\* one call of send_message: line 648, the directory reads and searches of
\* lines 739-745, the transport's answers
SendMessageTo(recipients) ==
    /\ Idle
    /\ \E to \in recipients, group_chat \in Modes :
       \E recipient \in {Strip(to)} :
       \E branch \in {SendBranch(recipient)} :
       \E gfetch \in SendGroupFetches(branch, group_chat),
          cfetch \in SendContactFetches(branch, group_chat) :
       \E g1 \in {SendGroupCheck(branch, group_chat, gfetch)} :
       \E g2 \in {SendGroupRead(branch, group_chat, g1, gfetch)},
          c \in {SendContactRead(branch, group_chat, g1, cfetch)} :
       \E group_matches \in {SendGroupMatches(branch, recipient, group_chat, g1, g2)},
          contact_matches \in {SendContactMatches(branch, recipient, group_chat, c)} :
       \E probe \in {send_message(recipient, group_chat, branch, g1, g2, c,
                                  group_matches, contact_matches, "file_ok", "file_ok")} :
       \E d1 \in FirstDeliveries(probe) :
       \E d2 \in SecondDeliveries(probe, d1) :
       \E r \in {send_message(recipient, group_chat, branch, g1, g2, c,
                              group_matches, contact_matches, d1, d2)} :
          /\ send_recent_matches' = r.matches
          /\ send_recent_group_matches' = r.group_matches
          /\ _GROUP_CHATS_CACHE' = r.gcache
          /\ _GROUP_CHATS_CACHE_TIME' = r.gtime
          /\ _CONTACTS_CACHE' = r.ccache
          /\ _LAST_CACHE_UPDATE' = r.ctime
          /\ _PHONE_TO_DETAILS_MAP' = r.details
          /\ call' = r.call
          /\ UNCHANGED <<now, histSession>>

\* the calls made with the recipients of the model
SendMessageCall == SendMessageTo(Recipients)

SendMessage == SendMessageCall /\ UNCHANGED <<previous, callers, text>>

(***************************************************************************)
(* get_recent_messages                                                     *)
(***************************************************************************)
MAX_HOURS == 10 * 365 * 24

Hours == {-1, 24, MAX_HOURS + 1}

HoursValid(hours) == ~(hours < 0) /\ ~(hours > MAX_HOURS)

\* contact: an identifier, or <<>> for None
HistContacts == Recipients \cup {<<>>}

\* line 1006: not all(c.isdigit() or c in '+- ()@.' for c in contact)
IsHistName(contact) ==
    ~(\A i \in DOMAIN contact :
         IsDigit(contact[i]) \/ contact[i] \in {"+", "-", " ", "(", ")", "@", "."})

\* which branch of get_recent_messages takes the contact given and stripped
\* (lines 931, 936, 943, 948 and 976)
HistBranch(hours, given, contact) ==
    IF ~HoursValid(hours) THEN "invalid_hours"
    ELSE IF given = <<>> THEN "none"
    ELSE IF StartsWith(Lower(contact), S_group) THEN "group_selector"
    ELSE IF StartsWith(Lower(contact), S_contact) THEN "contact_selector"
    ELSE "identifier"

\* lines 947-1003: the selectors. chat_room_name and contact are the locals of
\* these names after the block, <<>> for None
HistSelect(branch, contact) ==
    IF branch = "group_selector"
    THEN LET sel == ParseSelection(contact, hist_recent_group_matches)
         IN  [outcome |-> sel.outcome, via |-> "group_selector",
              chat_room_name |-> IF sel.outcome = "Selected"
                                 THEN hist_recent_group_matches[sel.index + 1].room_name
                                 ELSE <<>>,
              contact |-> <<>>,
              read |-> sel.outcome \in {"NoActiveSession", "IndexOutOfRange", "Selected"}]
    ELSE IF branch = "contact_selector"
    THEN LET sel == ParseSelection(contact, hist_recent_matches)
         IN  [outcome |-> sel.outcome, via |-> "contact_selector",
              chat_room_name |-> <<>>,
              contact |-> IF sel.outcome = "Selected"
                          THEN hist_recent_matches[sel.index + 1].phone
                          ELSE <<>>,
              read |-> sel.outcome \in {"NoActiveSession", "IndexOutOfRange", "Selected"}]
    ELSE [outcome |-> IF branch = "invalid_hours" THEN "InvalidHours" ELSE "Selected",
          via |-> IF branch = "identifier" THEN "address" ELSE "none",
          chat_room_name |-> <<>>, contact |-> contact, read |-> FALSE]

\* line 1006: the name search is made
HistSearches(sel) ==
    /\ sel.outcome = "Selected"
    /\ sel.contact # <<>>
    /\ sel.chat_room_name = <<>>
    /\ IsHistName(sel.contact)

\* line 1008: get_group_chats() inside find_group_chat_by_name
HistGroupRead(sel, gfetch) ==
    IF HistSearches(sel)
    THEN get_group_chats(_GROUP_CHATS_CACHE, _GROUP_CHATS_CACHE_TIME, now, gfetch)
    ELSE GroupsNotRead

\* line 1008
HistGroupMatches(sel, g) ==
    IF HistSearches(sel) THEN find_group_chat_by_name(sel.contact, g) ELSE <<>>

\* lines 1010-1016 and 1036-1038: find_contact_by_name is called unless
\* exactly one group matched
HistSearchesContacts(sel, group_matches) ==
    HistSearches(sel) /\ Len(group_matches) # 1

\* lines 1016 and 1038: get_cached_contacts() inside find_contact_by_name
HistContactRead(sel, group_matches, cfetch) ==
    IF HistSearchesContacts(sel, group_matches)
    THEN get_cached_contacts(_CONTACTS_CACHE, _LAST_CACHE_UPDATE,
                             _PHONE_TO_DETAILS_MAP, now, cfetch)
    ELSE ContactsNotRead

\* lines 1016 and 1038
HistContactMatches(sel, group_matches, c) ==
    IF HistSearchesContacts(sel, group_matches)
    THEN find_contact_by_name(sel.contact, c.ret, c.details)
    ELSE <<>>

\* lines 943-1053: the identifier is resolved, or the call ends. The outcome
\* "Resolved" stands for a call that goes on to the message query with the
\* target found: a chat room, an address, or none
HistResolve(given, sel, g, c, group_matches, contact_matches) ==
    LET base == Unchanged("history", given, "None",
                          hist_recent_matches, hist_recent_group_matches)
        searched == [base EXCEPT
                       !.gcache = g.cache, !.gtime = g.time,
                       !.ccache = c.cache, !.ctime = c.time, !.details = c.details,
                       !.call.via = "name", !.call.read = sel.read,
                       !.call.fetches = Fetched(g, "groups") \o Fetched(c, "contacts"),
                       !.call.group_search = IF g.error THEN "error" ELSE "made",
                       !.call.contact_search =
                          IF Len(group_matches) # 1 THEN "made" ELSE "none",
                       !.call.found_groups = group_matches,
                       !.call.found_contacts = contact_matches]
    IN  IF sel.outcome # "Selected"
        THEN [base EXCEPT !.call.outcome = sel.outcome, !.call.via = sel.via,
                          !.call.read = sel.read]
        ELSE IF ~HistSearches(sel)
        THEN [base EXCEPT
                !.call.outcome = "Resolved", !.call.via = sel.via,
                !.call.read = sel.read,
                !.call.target = IF sel.chat_room_name # <<>> THEN "group"
                                ELSE IF sel.contact # <<>> THEN "contact"
                                ELSE "none",
                !.call.address = IF sel.chat_room_name # <<>> THEN sel.chat_room_name
                                 ELSE sel.contact]
        ELSE IF Len(group_matches) = 1
        THEN [searched EXCEPT
                !.call.outcome = "Resolved", !.call.target = "group",
                !.call.address = group_matches[1].room_name]
        ELSE IF Len(group_matches) > 1 /\ Len(contact_matches) > 0
        THEN [searched EXCEPT
                !.group_matches = group_matches, !.matches = contact_matches,
                !.call.report = [groups |-> ReportLines(group_matches, CapOfBoth),
                                 contacts |-> ReportLines(contact_matches, CapOfBoth)],
                !.call.outcome = "Ambiguous"]
        ELSE IF Len(group_matches) > 1
        THEN [searched EXCEPT
                !.group_matches = group_matches, !.matches = <<>>,
                !.call.report = [groups |-> ReportLines(group_matches, CapOfOne),
                                 contacts |-> <<>>],
                !.call.outcome = "Ambiguous"]
        ELSE IF Len(contact_matches) = 0
        THEN [searched EXCEPT !.call.outcome = "NotFound"]
        ELSE IF Len(contact_matches) = 1
        THEN [searched EXCEPT
                !.call.outcome = "Resolved", !.call.target = "contact",
                !.call.address = contact_matches[1].phone]
        ELSE [searched EXCEPT
                !.matches = contact_matches,
                !.call.report = [groups |-> <<>>,
                                 contacts |-> ReportLines(contact_matches, CapOfOne)],
                !.call.outcome = "Ambiguous"]

\* what the message database answers: whether a handle of the address is
\* found, and whether the query gives no message or messages of other people
Handles == {"found", "none"}

Listings == {"empty", "others"}

\* lines 1056-1233: the handle of an address, the message query and the
\* names of the senders, which get_contact_name takes from
\* get_cached_contacts()
HistList(res, handle, listing, cfetch) ==
    IF res.call.outcome # "Resolved" THEN res
    ELSE IF res.call.target = "contact" /\ handle = "none"
    THEN [res EXCEPT !.call.outcome = "NoHistory"]
    ELSE IF listing = "empty"
    THEN [res EXCEPT !.call.outcome = "NoMessages"]
    ELSE LET c == get_cached_contacts(res.ccache, res.ctime, res.details, now, cfetch)
         IN  [res EXCEPT
                !.ccache = c.cache, !.ctime = c.time, !.details = c.details,
                !.call.fetches = @ \o Fetched(c, "contacts"),
                !.call.outcome = "Listed"]

\* the answers of the environment are drawn only where the call asks
HistGroupFetches(sel) ==
    IF HistSearches(sel) /\ NeedsGroupFetch(_GROUP_CHATS_CACHE, _GROUP_CHATS_CACHE_TIME)
    THEN GroupFetches ELSE {AnyGroupFetch}

HistContactFetches(sel, group_matches) ==
    IF /\ HistSearchesContacts(sel, group_matches)
       /\ NeedsContactFetch(_CONTACTS_CACHE, _LAST_CACHE_UPDATE)
    THEN ContactFetches ELSE {AnyContactFetch}

HistHandles(res) ==
    IF res.call.outcome = "Resolved" /\ res.call.target = "contact"
    THEN Handles ELSE {"found"}

HistListings(res, handle) ==
    IF res.call.outcome = "Resolved" /\ ~(res.call.target = "contact" /\ handle = "none")
    THEN Listings ELSE {"empty"}

HistListFetches(res, listing) ==
    IF listing = "others" /\ NeedsContactFetch(res.ccache, res.ctime)
    THEN ContactFetches ELSE {AnyContactFetch}

\* one call of get_recent_messages(hours, contact)
GetRecentMessages ==
    /\ Idle
    /\ \E hours \in Hours :
       \E given \in (IF HoursValid(hours) THEN HistContacts ELSE {<<>>}) :
       \E contact \in {Strip(given)} :
       \E branch \in {HistBranch(hours, given, contact)} :
       \E sel \in {HistSelect(branch, contact)} :
       \E gfetch \in HistGroupFetches(sel) :
       \E g \in {HistGroupRead(sel, gfetch)} :
       \E group_matches \in {HistGroupMatches(sel, g)} :
       \E cfetch \in HistContactFetches(sel, group_matches) :
       \E c \in {HistContactRead(sel, group_matches, cfetch)} :
       \E contact_matches \in {HistContactMatches(sel, group_matches, c)} :
       \E res \in {HistResolve(contact, sel, g, c, group_matches, contact_matches)} :
       \E handle \in HistHandles(res) :
       \E listing \in HistListings(res, handle) :
       \E cfetch2 \in HistListFetches(res, listing) :
       \E r \in {HistList(res, handle, listing, cfetch2)} :
          /\ hist_recent_matches' = r.matches
          /\ hist_recent_group_matches' = r.group_matches
          /\ _GROUP_CHATS_CACHE' = r.gcache
          /\ _GROUP_CHATS_CACHE_TIME' = r.gtime
          /\ _CONTACTS_CACHE' = r.ccache
          /\ _LAST_CACHE_UPDATE' = r.ctime
          /\ _PHONE_TO_DETAILS_MAP' = r.details
          /\ call' = r.call
          /\ UNCHANGED <<now, sendSession, previous, callers, text>>

\* the answer is handed to the caller
Return ==
    /\ ~Idle
    /\ call' = NoCall
    /\ UNCHANGED <<now, caches, sendSession, histSession, previous, callers, text>>

Next == Tick \/ SendMessage \/ GetRecentMessages \/ Return

Spec == Init /\ [][Next]_vars

\* the answer is handed to the caller, who keeps it to compare it with the
\* answer of the next call
ReturnRecorded ==
    /\ ~Idle
    /\ previous' = [call |-> Answer(call), gcache |-> _GROUP_CHATS_CACHE,
                    ccache |-> _CONTACTS_CACHE, details |-> _PHONE_TO_DETAILS_MAP]
    /\ call' = NoCall
    /\ UNCHANGED <<now, caches, sendSession, histSession, callers, text>>

\* calls of send_message one after the other while the clock stands still,
\* each compared with the one before
NextTwice == SendMessage \/ ReturnRecorded

SpecTwice == Init /\ [][NextTwice]_vars

\* one of the callers calls send_message; the calls of the callers
\* interleave, each call runs to its end
SendMessageBy ==
    /\ SendMessageCall
    /\ \E c \in Callers : callers' = [callers EXCEPT !.current = c]
    /\ UNCHANGED <<previous, text>>

\* the phones of the contacts a report numbers, in its order
ShownContacts(report) == [i \in DOMAIN report.contacts |-> report.contacts[i].entry.phone]

\* the answer is handed to the caller who called; an Ambiguous report is
\* what this caller picks from afterwards
ReturnTo ==
    /\ ~Idle
    /\ callers' = IF call.outcome = "Ambiguous"
                  THEN [callers EXCEPT !.latest = callers.current,
                                       !.shown[callers.current] = ShownContacts(call.report)]
                  ELSE callers
    /\ call' = NoCall
    /\ UNCHANGED <<now, caches, sendSession, histSession, previous, text>>

NextCallers == SendMessageBy \/ ReturnTo

SpecCallers == Init /\ [][NextCallers]_vars

\* clean_name(name), then clean_name of what it returned
CleanName ==
    /\ text.function \in {"none", "clean_name"}
    /\ text.twice = None
    /\ text' = IF text.once = None
               THEN [text EXCEPT !.function = "clean_name",
                                 !.once = Some(clean_name(text.given))]
               ELSE [text EXCEPT !.twice = Some(clean_name(text.once[1]))]
    /\ UNCHANGED <<now, caches, sendSession, histSession, call, previous, callers>>

\* normalize_phone_number(phone), then normalize_phone_number of what it
\* returned
NormalizePhoneNumber ==
    /\ text.function \in {"none", "normalize_phone_number"}
    /\ text.twice = None
    /\ text' = IF text.once = None
               THEN [text EXCEPT !.function = "normalize_phone_number",
                                 !.once = Some(normalize_phone_number(text.given))]
               ELSE [text EXCEPT !.twice = Some(normalize_phone_number(text.once[1]))]
    /\ UNCHANGED <<now, caches, sendSession, histSession, call, previous, callers>>

NextTexts == CleanName \/ NormalizePhoneNumber

\* find_handle_by_phone(phone) on a handle table that holds the stored phone
FindHandleByPhone ==
    /\ text.function = "none"
    /\ text' = [text EXCEPT
                  !.function = "find_handle_by_phone",
                  !.tried = formats_to_try(text.given),
                  !.found = find_handle_by_phone(text.given, <<text.stored>>) # None]
    /\ UNCHANGED <<now, caches, sendSession, histSession, call, previous, callers>>

\* get_contact_name(handle_id) for a handle of the id given, on a contact
\* map that holds the stored phone
GetContactName ==
    /\ text.function = "none"
    /\ text' = [text EXCEPT
                  !.function = "get_contact_name",
                  !.tried = ContactKeysTried(text.given, {text.stored}),
                  !.found = ContactKeyFound(text.given, {text.stored}) # None]
    /\ UNCHANGED <<now, caches, sendSession, histSession, call, previous, callers>>

NextPhones == FindHandleByPhone \/ GetContactName

\* fuzzy_match(query, [(label, 1)]) with the default threshold
FuzzyMatch ==
    /\ text.function = "none"
    /\ LET results == fuzzy_match(text.given, <<[name |-> text.stored, value |-> 1]>>,
                                  Threshold)
       IN  text' = [text EXCEPT
                      !.function = "fuzzy_match",
                      !.found = results # <<>>,
                      !.score = IF results = <<>> THEN None ELSE Some(results[1].score)]
    /\ UNCHANGED <<now, caches, sendSession, histSession, call, previous, callers>>

NextMatches == FuzzyMatch

\* a name that many contacts and many group chats bear, and selectors past
\* the fifth and past the tenth entry
SelectionRecipients ==
    {<<"k","i","m">>, <<"z","e","d">>,
     S_contact \o <<"5">>, S_contact \o <<"6">>, S_group \o <<"6">>,
     S_group \o <<"7">>, S_contact \o <<"1","1">>, S_contact \o <<"1","2">>}

\* send_message called with these recipients
SendSelection == SendMessageTo(SelectionRecipients) /\ UNCHANGED <<previous, callers, text>>

NextSelection == SendSelection \/ Return

SpecSelection == Init /\ [][NextSelection]_vars

\* literals: the empty string, blanks, strings of the phone punctuation
\* alone, a phone number, an email address; and a name and a selector
LiteralRecipients ==
    {<<>>, <<" ", " ">>, <<"(", ")">>, <<"+", " ", "-">>, <<"+", "1", " ", "5", "5">>,
     <<"(", "5", ")">>, <<"a", "@", "b", ".", "c">>, <<"k", "i", "m">>,
     S_contact \o <<"1">>}

\* send_message called with these recipients
SendLiterals == SendMessageTo(LiteralRecipients) /\ UNCHANGED <<previous, callers, text>>

\* the answer is handed to the caller, who keeps it, and keeps the contacts
\* of the last Ambiguous report to pick from
ReturnNoted ==
    /\ ~Idle
    /\ previous' = [call |-> Answer(call), gcache |-> _GROUP_CHATS_CACHE,
                    ccache |-> _CONTACTS_CACHE, details |-> _PHONE_TO_DETAILS_MAP]
    /\ callers' = IF call.outcome = "Ambiguous"
                  THEN [callers EXCEPT !.shown[callers.current] = ShownContacts(call.report)]
                  ELSE callers
    /\ call' = NoCall
    /\ UNCHANGED <<now, caches, sendSession, histSession, text>>

NextLiterals == SendLiterals \/ ReturnNoted

SpecLiterals == Init /\ [][NextLiterals]_vars

\* the directories as they are read later: the group "Sam Fam" under
\* another identifier and service, the contacts with other phone numbers
GroupWorld2 ==
    << ChatRow(4, S_chat4, <<"S","a","m"," ","F","a","m">>, S_chat5, S_SMS) >>

ContactWorld2 ==
    << ContactRow(<<"S","a","m","m">>, <<"L","e","e">>, <<"S","a","m","m","y">>,
                  <<"7","7","0","1">>),
       ContactRow(<<"S","a","m">>, <<"R","o","y">>, <<>>, <<"7","7","0","2">>) >>

\* the clock advances between calls by more than the time-to-live of both
\* caches
TickPast ==
    /\ Idle
    /\ now < StartTime + MaxTicks * (TickSize + 1)
    /\ now' = now + TickSize + 1
    /\ UNCHANGED <<caches, sendSession, histSession, call, previous, callers, text>>

\* get_group_chats() is called between two calls of send_message and reads
\* the later directory where its cache has expired
GetGroupChats ==
    /\ Idle
    /\ \E fetch \in {[ok |-> TRUE, rows |-> GroupWorld2], [ok |-> FALSE, rows |-> <<>>]} :
          LET g == get_group_chats(_GROUP_CHATS_CACHE, _GROUP_CHATS_CACHE_TIME, now, fetch)
          IN  /\ _GROUP_CHATS_CACHE' = g.cache
              /\ _GROUP_CHATS_CACHE_TIME' = g.time
    /\ UNCHANGED <<now, _CONTACTS_CACHE, _LAST_CACHE_UPDATE, _PHONE_TO_DETAILS_MAP,
                   sendSession, histSession, call, previous, callers, text>>

\* get_cached_contacts() is called between two calls of send_message and
\* reads the later directory where its cache has expired
GetCachedContacts ==
    /\ Idle
    /\ \E fetch \in {[via |-> "direct", rows |-> ContactWorld2],
                      [via |-> "failed", rows |-> <<>>]} :
          LET c == get_cached_contacts(_CONTACTS_CACHE, _LAST_CACHE_UPDATE,
                                       _PHONE_TO_DETAILS_MAP, now, fetch)
          IN  /\ _CONTACTS_CACHE' = c.cache
              /\ _LAST_CACHE_UPDATE' = c.time
              /\ _PHONE_TO_DETAILS_MAP' = c.details
    /\ UNCHANGED <<now, _GROUP_CHATS_CACHE, _GROUP_CHATS_CACHE_TIME,
                   sendSession, histSession, call, previous, callers, text>>

\* a name that a group and two contacts bear, and selectors
RefreshRecipients ==
    {<<"S","a","m">>, S_contact \o <<"1">>, S_contact \o <<"2">>, S_group \o <<"1">>}

\* send_message called with these recipients
SendRefreshed == SendMessageTo(RefreshRecipients) /\ UNCHANGED <<previous, callers, text>>

NextRefresh == TickPast \/ GetGroupChats \/ GetCachedContacts \/ SendRefreshed \/ ReturnRecorded

SpecRefresh == Init /\ [][NextRefresh]_vars

SpecMatches == InitMatches /\ [][NextMatches]_vars

SpecPhones == InitPhones /\ [][NextPhones]_vars

SpecTexts == InitTexts /\ [][NextTexts]_vars

(***************************************************************************)
(* The session of send_message                                             *)
(***************************************************************************)
\* "contact:k" and "group:k" as a caller writes them
RECURSIVE Decimal(_)
Decimal(k) ==
    IF k < 10 THEN <<DigitSeq[k + 1]>>
    ELSE Decimal(k \div 10) \o <<DigitSeq[(k % 10) + 1]>>

ContactSelector(k) == S_contact \o Decimal(k)

GroupSelector(k) == S_group \o Decimal(k)

SendCall == call.op = "send"

SendSelectorCall == SendCall /\ call.via \in {"group_selector", "contact_selector"}

SendSessionEmpty == send_recent_matches = <<>> /\ send_recent_group_matches = <<>>

SendSessionAsBefore ==
    /\ send_recent_matches = call.before_matches
    /\ send_recent_group_matches = call.before_group_matches

\* C1: in send_message "contact:k" picks the k-th contact the session held
\* and sends to its phone, "group:k" picks the k-th group and sends to its
\* chat id first; after a selector call that sent, both lists of the session
\* are empty; with both lists empty a selector call picks nothing, a
\* well-formed one in a mode that admits it answers NoActiveSession, and the
\* lists stay empty until a name search ends Ambiguous.
C1_SelectorRoundTrip ==
    SendCall =>
      /\ \A k \in 1..MaxSelector :
            (call.recipient = ContactSelector(k) /\ call.group_chat # "True"
               /\ k <= Len(call.before_matches))
              => /\ call.target = "contact"
                 /\ call.address = call.before_matches[k].phone
                 /\ call.attempts[1].to = call.before_matches[k].phone
      /\ \A k \in 1..MaxSelector :
            (call.recipient = GroupSelector(k) /\ call.group_chat # "False"
               /\ k <= Len(call.before_group_matches))
              => /\ call.target = "group"
                 /\ call.attempts[1].to = call.before_group_matches[k].applescript_id
      /\ (SendSelectorCall /\ call.outcome = "Sent") => SendSessionEmpty
      /\ (SendSelectorCall /\ call.before_matches = <<>>
            /\ call.before_group_matches = <<>>)
           => /\ call.target = "none" /\ call.attempts = <<>>
              /\ SendSessionEmpty
              /\ \A k \in 1..MaxSelector :
                    \/ (call.recipient = ContactSelector(k) /\ call.group_chat # "True")
                    \/ (call.recipient = GroupSelector(k) /\ call.group_chat # "False")
                    => call.outcome = "NoActiveSession"
      /\ (call.before_matches = <<>> /\ call.before_group_matches = <<>>
            /\ ~SendSessionEmpty)
           => call.via = "name" /\ call.outcome = "Ambiguous"

\* "contact:2" sent to the second of two contacts an ambiguous search stored
C1_Witness ==
    /\ SendCall /\ call.recipient = ContactSelector(2)
    /\ call.outcome = "Sent"
    /\ Len(call.before_matches) = 2
    /\ call.address = call.before_matches[2].phone
    /\ call.before_matches[1].phone # call.before_matches[2].phone
    /\ SendSessionEmpty

\* C2: a selector call of send_message whose send fails leaves both session
\* lists as they were; the send of a picked contact fails when its last
\* transport attempt failed, that of a picked group when the attempts on the
\* chat id and on the alternative chat id both failed.
C2_FailedSendKeepsSession ==
    SendSelectorCall =>
      /\ call.outcome = "SendFailed" =>
            /\ SendSessionAsBefore
            /\ ~SendSessionEmpty
            /\ call.attempts[Len(call.attempts)].result = "error"
      /\ (call.target # "none" /\ call.attempts[Len(call.attempts)].result = "error")
           => call.outcome = "SendFailed"
      /\ (call.outcome = "SendFailed" /\ call.via = "group_selector") =>
            \E k \in DOMAIN call.before_group_matches :
              /\ \E i \in DOMAIN call.attempts :
                    /\ call.attempts[i].to = call.before_group_matches[k].applescript_id
                    /\ call.attempts[i].via = "direct"
                    /\ call.attempts[i].result = "error"
              /\ \E i \in DOMAIN call.attempts :
                    /\ call.attempts[i].to = call.before_group_matches[k].applescript_id_alt
                    /\ call.attempts[i].via = "direct"
                    /\ call.attempts[i].result = "error"

\* "group:2" failed on both chat ids and the two groups are still stored
C2_Witness ==
    /\ SendCall /\ call.recipient = GroupSelector(2)
    /\ call.outcome = "SendFailed"
    /\ Len(call.attempts) = 4
    /\ Len(send_recent_group_matches) = 2
    /\ SendSessionAsBefore

\* C3: a name search of send_message sends to an address exactly when its
\* group matches and contact matches are one in total, and then to that
\* match; with two or more it ends Ambiguous, sends nothing and stores both
\* lists; with none it ends NotFound.
C3_SingleIffOneMatch ==
    (SendCall /\ call.via = "name" /\ call.outcome # "DirectoryError") =>
      LET total == Len(call.found_groups) + Len(call.found_contacts)
      IN  /\ (call.target # "none") <=> (total = 1)
          /\ (total = 1 /\ Len(call.found_groups) = 1) =>
                /\ call.target = "group"
                /\ call.attempts[1].to = call.found_groups[1].applescript_id
          /\ (total = 1 /\ Len(call.found_contacts) = 1) =>
                /\ call.target = "contact"
                /\ call.address = call.found_contacts[1].phone
          /\ total >= 2 =>
                /\ call.outcome = "Ambiguous"
                /\ call.attempts = <<>> /\ call.address = <<>>
                /\ send_recent_group_matches = call.found_groups
                /\ send_recent_matches = call.found_contacts
          /\ total = 0 => call.outcome = "NotFound" /\ call.attempts = <<>>

\* one group and two contacts matched, and nothing was sent
C3_Witness ==
    /\ SendCall /\ call.via = "name"
    /\ Len(call.found_groups) = 1 /\ Len(call.found_contacts) = 2
    /\ call.outcome = "Ambiguous" /\ call.attempts = <<>>

\* C4: a name search of send_message that resolved to a single match leaves
\* both session lists empty, whatever they held and whether the send
\* succeeded, so that the well-formed selector call made with both lists
\* empty answers NoActiveSession and sends nothing.
C4_SingleMatchClears ==
    SendCall =>
      /\ (call.via = "name" /\ call.target # "none") => SendSessionEmpty
      /\ \A k \in 1..MaxSelector :
            /\ call.before_matches = <<>> /\ call.before_group_matches = <<>>
            /\ \/ (call.recipient = ContactSelector(k) /\ call.group_chat # "True")
               \/ (call.recipient = GroupSelector(k) /\ call.group_chat # "False")
            => call.outcome = "NoActiveSession" /\ call.attempts = <<>>

\* a single contact was found while the session held groups, the send
\* failed, and the session is empty
C4_Witness ==
    /\ SendCall /\ call.via = "name" /\ call.target = "contact"
    /\ call.outcome = "SendFailed"
    /\ call.before_group_matches # <<>>
    /\ SendSessionEmpty

\* C5: a name search of send_message that ends Ambiguous stores the contact
\* matches and the group matches it found, an empty list included, in the
\* place of what the session held.
C5_AmbiguousOverwrites ==
    (SendCall /\ call.outcome = "Ambiguous") =>
      /\ call.via = "name"
      /\ send_recent_matches = call.found_contacts
      /\ send_recent_group_matches = call.found_groups
      /\ Len(call.found_contacts) + Len(call.found_groups) >= 2

\* only groups were found while the session held contacts, which are gone
C5_Witness ==
    /\ SendCall /\ call.outcome = "Ambiguous"
    /\ call.before_matches # <<>>
    /\ call.found_contacts = <<>>
    /\ send_recent_matches = <<>>
    /\ Len(send_recent_group_matches) = 2

(***************************************************************************)
(* The session of get_recent_messages                                      *)
(***************************************************************************)
HistCall == call.op = "history"

HistSelectorCall == HistCall /\ call.via \in {"group_selector", "contact_selector"}

HistSessionEmpty == hist_recent_matches = <<>> /\ hist_recent_group_matches = <<>>

HistSessionAsBefore ==
    /\ hist_recent_matches = call.before_matches
    /\ hist_recent_group_matches = call.before_group_matches

\* the contacts of the address book that the contact search gives for a name
ContactsInDirectory(name) ==
    find_contact_by_name(name, ContactsMap(ContactWorld1),
                         PhoneToDetails(ContactWorld1))

\* C6: a name search of get_recent_messages that ends Ambiguous leaves in
\* the session exactly the contact matches and the group matches it found,
\* and one that resolved to a single match leaves both session lists empty.
C6_HistSessionLifecycle ==
    (HistCall /\ call.via = "name") =>
      /\ call.outcome = "Ambiguous" =>
            /\ hist_recent_matches = call.found_contacts
            /\ hist_recent_group_matches = call.found_groups
      /\ call.target # "none" => HistSessionEmpty

\* C7: a selector call of get_recent_messages that picked an entry leaves
\* both session lists empty, and one that picked nothing leaves them as
\* they were.
C7_HistSelectorConsumes ==
    HistSelectorCall =>
      /\ call.target # "none" => HistSessionEmpty
      /\ call.target = "none" => HistSessionAsBefore

\* C8: a name search of get_recent_messages resolves to a target only when
\* the groups it found and the contacts of the directory matching the name
\* are one in total; with a group found and a matching contact in the
\* directory it ends Ambiguous.
C8_HistSingleIffOne ==
    (HistCall /\ call.via = "name") =>
      LET contacts == ContactsInDirectory(Strip(call.recipient))
      IN  /\ call.target # "none" =>
                Len(call.found_groups) + Len(contacts) = 1
          /\ (call.found_groups # <<>> /\ contacts # <<>>) =>
                call.outcome = "Ambiguous"

\* C9: a group selector with group_chat False, and a contact selector with
\* group_chat True, end send_message with ModeConflict before the number is
\* parsed and before the session is read: nothing is sent and the session
\* is as it was.
C9_ModeConflictFirst ==
    (SendCall /\ \/ (StartsWith(Lower(call.recipient), S_group)
                       /\ call.group_chat = "False")
                 \/ (StartsWith(Lower(call.recipient), S_contact)
                       /\ call.group_chat = "True")) =>
      /\ call.outcome = "ModeConflict"
      /\ ~call.read
      /\ call.target = "none" /\ call.attempts = <<>>
      /\ SendSessionAsBefore

\* "group:1" with group_chat False is refused although a first group is stored
C9_Witness ==
    /\ SendCall /\ call.recipient = GroupSelector(1)
    /\ call.group_chat = "False"
    /\ call.outcome = "ModeConflict"
    /\ Len(send_recent_group_matches) >= 1

\* C10: a well-formed selector of send_message in a mode that admits it
\* answers NoActiveSession when the session list of its kind is empty and
\* IndexOutOfRange when its number is past the end of a list that is not;
\* either way nothing is sent and both session lists are as they were.
C10_EmptyOrOutOfRange ==
    SendCall =>
      \A k \in 1..MaxSelector :
        /\ (call.recipient = ContactSelector(k) /\ call.group_chat # "True") =>
              /\ call.before_matches = <<>> => call.outcome = "NoActiveSession"
              /\ (call.before_matches # <<>> /\ k > Len(call.before_matches))
                   => call.outcome = "IndexOutOfRange"
              /\ (call.before_matches = <<>> \/ k > Len(call.before_matches))
                   => /\ call.target = "none" /\ call.attempts = <<>>
                      /\ SendSessionAsBefore
        /\ (call.recipient = GroupSelector(k) /\ call.group_chat # "False") =>
              /\ call.before_group_matches = <<>> => call.outcome = "NoActiveSession"
              /\ (call.before_group_matches # <<>>
                    /\ k > Len(call.before_group_matches))
                   => call.outcome = "IndexOutOfRange"
              /\ (call.before_group_matches = <<>>
                    \/ k > Len(call.before_group_matches))
                   => /\ call.target = "none" /\ call.attempts = <<>>
                      /\ SendSessionAsBefore

\* "contact:3" against a session of two contacts, which are still stored
C10_Witness ==
    /\ SendCall /\ call.recipient = ContactSelector(3)
    /\ Len(call.before_matches) = 2
    /\ call.outcome = "IndexOutOfRange"
    /\ send_recent_matches = call.before_matches

(***************************************************************************)
(* Literal identifiers                                                     *)
(***************************************************************************)
IsSelectorText(s) ==
    StartsWith(Lower(s), S_group) \/ StartsWith(Lower(s), S_contact)

HasAtAndDot(s) ==
    (\E i \in DOMAIN s : s[i] = "@") /\ (\E i \in DOMAIN s : s[i] = ".")

OnlyPhoneCharacters(s) ==
    \A i \in DOMAIN s :
        s[i] \in {"0", "1", "2", "3", "4", "5", "6", "7", "8", "9",
                  "+", "-", " ", "(", ")"}

NoDirectorySearch ==
    /\ call.fetches = <<>>
    /\ call.found_groups = <<>> /\ call.found_contacts = <<>>

\* C11: send_message given an identifier that is no selector and holds both
\* "@" and "." reads no directory and searches nothing; with group_chat True
\* it ends ModeConflict and sends nothing, otherwise it sends to the
\* identifier itself as a contact address.
C11_EmailLiteral ==
    (SendCall /\ ~IsSelectorText(call.recipient) /\ HasAtAndDot(call.recipient)) =>
      /\ NoDirectorySearch
      /\ SendSessionAsBefore
      /\ call.group_chat = "True" =>
            /\ call.outcome = "ModeConflict"
            /\ call.target = "none" /\ call.attempts = <<>>
      /\ call.group_chat # "True" =>
            /\ call.outcome \in {"Sent", "SendFailed"}
            /\ call.target = "contact"
            /\ call.address = call.recipient
            /\ call.attempts[1].to = call.recipient

\* an email address was sent to as it is
C11_Witness ==
    /\ SendCall /\ HasAtAndDot(call.recipient)
    /\ call.group_chat = "None"
    /\ call.outcome = "Sent"
    /\ call.address = call.recipient
    /\ call.fetches = <<>>

C13_PhoneLiteral ==
    (SendCall /\ ~IsSelectorText(call.recipient) /\ ~HasAtAndDot(call.recipient)
       /\ OnlyPhoneCharacters(call.recipient)) =>
      /\ NoDirectorySearch
      /\ SendSessionAsBefore
      /\ call.group_chat = "True" =>
            /\ call.outcome = "ModeConflict"
            /\ call.target = "none" /\ call.attempts = <<>>
      /\ call.group_chat # "True" =>
            /\ call.outcome \in {"Sent", "SendFailed"}
            /\ call.target = "contact"
            /\ call.address = normalize_phone_number(call.recipient)
            /\ call.attempts[1].to = normalize_phone_number(call.recipient)

\* "+1 55" was sent to as "155"
C13_Witness ==
    /\ SendCall /\ call.recipient = <<"+", "1", " ", "5", "5">>
    /\ call.outcome = "Sent"
    /\ call.address = <<"1", "5", "5">>
    /\ call.fetches = <<>>

(***************************************************************************)
(* The ranked lists of a name search                                       *)
(***************************************************************************)
\* the chats a group search of the call worked on, and the name it had
SearchedChats == _GROUP_CHATS_CACHE[1]

SearchedName == Strip(call.recipient)

\* the identifier is the room name, the chat identifier or the primary chat
\* id of the chat
IsFieldOf(name, chat) ==
    name \in {chat.room_name, chat.chat_identifier, chat.applescript_id}

\* the list is one entry of score 1.0 made of a chat that has the identifier
\* in one of the three fields
IsExactResult(list, name, chats) ==
    /\ Len(list) = 1
    /\ list[1].score = ScoreOne
    /\ \E j \in DOMAIN chats :
          /\ IsFieldOf(name, chats[j])
          /\ list[1].room_name = chats[j].room_name
          /\ list[1].chat_id = chats[j].rowid
          /\ list[1].applescript_id = chats[j].applescript_id

\* every non-empty field of every chat of the directory, searched for
ExactFieldsShortCircuit ==
    \A w \in GroupWorlds :
      LET chats == BuildChats(w)
      IN  \A i \in DOMAIN chats :
            \A name \in {chats[i].room_name, chats[i].chat_identifier,
                          chats[i].applescript_id} \ {<<>>} :
              IsExactResult(SearchGroups(name, chats), name, chats)

\* C14: a group search for an identifier that is the room name, the chat
\* identifier or the primary chat id of a chat of the directory gives one
\* entry, of that chat and with score 1.0, and nothing from the fuzzy
\* matching of the labels.
C14_ExactHitShortCircuits ==
    /\ ExactFieldsShortCircuit
    /\ (call.group_search = "made"
          /\ \E i \in DOMAIN SearchedChats : IsFieldOf(SearchedName, SearchedChats[i]))
         => IsExactResult(call.found_groups, SearchedName, SearchedChats)

\* "chat1" found the chat of that room name alone, although the label of
\* another chat is "chat5"
C14_Witness ==
    /\ SendCall /\ call.recipient = S_chat1
    /\ call.group_search = "made"
    /\ Len(call.found_groups) = 1
    /\ call.found_groups[1].room_name = S_chat1
    /\ call.found_groups[1].score = ScoreOne
    /\ \E i \in DOMAIN SearchedChats : ChatLabel(SearchedChats[i]) = S_chat5
    /\ call.target = "group"

NoTwoSamePhone(list) ==
    \A i, j \in DOMAIN list : i # j => list[i].phone # list[j].phone

NoTwoSameChatId(list) ==
    \A i, j \in DOMAIN list : i # j => list[i].applescript_id # list[j].applescript_id

\* the fuzzy matches a contact search and a group search are built from
ContactMatchesOf(name, snapshot) ==
    fuzzy_match(name, ContactCandidates(snapshot[1], snapshot[2]), Threshold)

GroupMatchesOf(name, chats) ==
    fuzzy_match(name, GroupCandidates(chats), Threshold)

\* the list has one entry for every address among the matches, and the entry
\* carries the highest score of the matches of its address
KeepsHighest(list, matches, Address(_), AddressOfMatch(_)) ==
    /\ \A k \in DOMAIN matches :
          \E i \in DOMAIN list : Address(list[i]) = AddressOfMatch(matches[k])
    /\ \A i \in DOMAIN list :
          /\ \E k \in DOMAIN matches :
                /\ AddressOfMatch(matches[k]) = Address(list[i])
                /\ matches[k].score = list[i].score
          /\ \A k \in DOMAIN matches :
                AddressOfMatch(matches[k]) = Address(list[i])
                  => ScoreGe(list[i].score, matches[k].score)

PhoneOf(entry) == entry.phone

ValueOf(match) == match.value

ChatIdOf(entry) == entry.applescript_id

ChatIdOfMatch(match) == match.value.applescript_id

\* the names the searches are tried on: those the calls pass, one that
\* matches two labels of one chat id and one that matches a later contact
\* better than an earlier one
RankedNames == SearchedNames \cup {<<"b","o","o","k">>, <<"r","o","y">>}

\* every search of the model, of contacts and of groups
SearchesDeduplicated ==
    /\ \A name \in RankedNames, snapshot \in ContactSnapshots :
          LET list == find_contact_by_name(name, snapshot[1], snapshot[2])
          IN  /\ NoTwoSamePhone(list)
              /\ KeepsHighest(list, ContactMatchesOf(name, snapshot), PhoneOf, ValueOf)
    /\ \A name \in RankedNames, chats \in GroupSnapshots :
          LET list == SearchGroups(name, chats)
          IN  /\ NoTwoSameChatId(list)
              /\ (\A i \in DOMAIN chats : ~ExactHit(chats[i], name))
                   => KeepsHighest(list, GroupMatchesOf(name, chats),
                                   ChatIdOf, ChatIdOfMatch)

\* C15: no list a name search returned and no list a session holds has two
\* entries of the same address, the phone of a contact or the primary chat
\* id of a group; of several matching labels of one address the entry
\* carries the highest score.
C15_NoDuplicateAddress ==
    /\ SearchesDeduplicated
    /\ NoTwoSamePhone(call.found_contacts)
    /\ NoTwoSameChatId(call.found_groups)
    /\ NoTwoSamePhone(send_recent_matches)
    /\ NoTwoSameChatId(send_recent_group_matches)
    /\ NoTwoSamePhone(hist_recent_matches)
    /\ NoTwoSameChatId(hist_recent_group_matches)

\* "Sam" matched the full name and the nickname of one phone, which is once
\* in the stored list, with the higher score
C15_Witness ==
    /\ SendCall /\ call.recipient = <<"S", "a", "m">>
    /\ call.outcome = "Ambiguous"
    /\ Len(send_recent_matches) = 2
    /\ LET matches == ContactMatchesOf(call.recipient,
                                       <<_CONTACTS_CACHE[1], _PHONE_TO_DETAILS_MAP>>)
       IN  \E a, b \in DOMAIN matches :
             /\ matches[a].value = matches[b].value
             /\ ScoreLt(matches[b].score, matches[a].score)
             /\ \E i \in DOMAIN send_recent_matches :
                   /\ send_recent_matches[i].phone = matches[a].value
                   /\ send_recent_matches[i].score = matches[a].score

\* the list is in descending order of score
ByScoreDescending(list) ==
    \A i, j \in DOMAIN list : i < j => ScoreGe(list[i].score, list[j].score)

\* where the contact of an entry is in the contact map, and where the chat of
\* an entry is in the list of chats
PlaceOfPhone(entry, contacts) ==
    CHOOSE k \in DOMAIN contacts : contacts[k].phone = entry.phone

PlaceOfChat(entry, chats) ==
    CHOOSE k \in DOMAIN chats : chats[k].rowid = entry.chat_id

\* entries of equal score are in the order of the directory
ContactTiesInOrder(list, contacts) ==
    \A i, j \in DOMAIN list :
      (i < j /\ list[i].score = list[j].score)
        => PlaceOfPhone(list[i], contacts) < PlaceOfPhone(list[j], contacts)

GroupTiesInOrder(list, chats) ==
    \A i, j \in DOMAIN list :
      (i < j /\ list[i].score = list[j].score)
        => PlaceOfChat(list[i], chats) < PlaceOfChat(list[j], chats)

\* the scores of a list
ScoresOf(list) == {list[i].score : i \in DOMAIN list}

\* the matches of one score are the scored candidates of that score, in the
\* order of the candidates
StableOn(matches, scored) ==
    /\ ByScoreDescending(matches)
    /\ \A s \in ScoresOf(matches) \cup ScoresOf(scored) :
          SelectSeq(matches, LAMBDA m : m.score = s)
            = SelectSeq(scored, LAMBDA m : m.score = s)

\* every search of the model: fuzzy_match on the candidates of the contacts
\* and of the groups, find_contact_by_name and find_group_chat_by_name
SearchesOrdered ==
    /\ \A name \in RankedNames, snapshot \in ContactSnapshots :
          LET candidates == ContactCandidates(snapshot[1], snapshot[2])
              list == find_contact_by_name(name, snapshot[1], snapshot[2])
          IN  /\ StableOn(fuzzy_match(name, candidates, Threshold),
                          ScoreAll(Lower(clean_name(name)), candidates, Threshold))
              /\ ByScoreDescending(list)
              /\ ContactTiesInOrder(list, snapshot[1])
    /\ \A name \in RankedNames, chats \in GroupSnapshots :
          LET candidates == GroupCandidates(chats)
              list == SearchGroups(name, chats)
          IN  /\ StableOn(fuzzy_match(name, candidates, Threshold),
                          ScoreAll(Lower(clean_name(name)), candidates, Threshold))
              /\ ByScoreDescending(list)
              /\ GroupTiesInOrder(list, chats)

\* C16: every list fuzzy_match, find_contact_by_name and
\* find_group_chat_by_name return is in descending order of score, and its
\* entries of equal score are in the order their candidates have in the
\* directory, after the deduplication too.
C16_RankedOrder ==
    /\ SearchesOrdered
    /\ ByScoreDescending(send_recent_matches)
    /\ ByScoreDescending(send_recent_group_matches)
    /\ ByScoreDescending(hist_recent_matches)
    /\ ByScoreDescending(hist_recent_group_matches)
    /\ call.contact_search = "made" =>
          /\ ByScoreDescending(call.found_contacts)
          /\ ContactTiesInOrder(call.found_contacts, _CONTACTS_CACHE[1])
    /\ call.group_search = "made" =>
          /\ ByScoreDescending(call.found_groups)
          /\ GroupTiesInOrder(call.found_groups, SearchedChats)

\* "Sam" found the third contact of the directory before the first, whose
\* score is lower, and the session of get_recent_messages holds two groups
\* of one score in the order of the directory
C16_Witness ==
    /\ SendCall /\ call.recipient = <<"S", "a", "m">>
    /\ call.contact_search = "made"
    /\ Len(call.found_contacts) = 2
    /\ PlaceOfPhone(call.found_contacts[1], _CONTACTS_CACHE[1]) = 3
    /\ PlaceOfPhone(call.found_contacts[2], _CONTACTS_CACHE[1]) = 1
    /\ ScoreLt(call.found_contacts[2].score, call.found_contacts[1].score)
    /\ Len(hist_recent_group_matches) = 2
    /\ hist_recent_group_matches[1].score = hist_recent_group_matches[2].score
    /\ PlaceOfChat(hist_recent_group_matches[1], SearchedChats)
         < PlaceOfChat(hist_recent_group_matches[2], SearchedChats)

(***************************************************************************)
(* The report of an ambiguous search                                       *)
(***************************************************************************)
\* the session lists of the operation the call is of
SessionContacts == IF SendCall THEN send_recent_matches ELSE hist_recent_matches

SessionGroups ==
    IF SendCall THEN send_recent_group_matches ELSE hist_recent_group_matches

Least(a, b) == IF a < b THEN a ELSE b

\* the lines are numbered 1..k and are the first k entries of the list found
NumberedInRank(lines, found) ==
    /\ Len(lines) <= Len(found)
    /\ \A i \in DOMAIN lines :
          lines[i].number = i /\ lines[i].entry = found[i]

\* the selector made of the number of a line picks the entry of the line
LinesSelect(lines, Selector(_), session) ==
    \A i \in DOMAIN lines :
      LET picked == ParseSelection(Selector(lines[i].number), session)
      IN  /\ picked.outcome = "Selected"
          /\ session[picked.index + 1] = lines[i].entry

\* C17: the report of an ambiguous search lists at most 10 entries of the one
\* list that is not empty and at most 5 of each when neither is; its lines
\* are numbered 1..k in the order of rank, and the selector of the kind with
\* the number of a line picks from the session the entry of that line.
C17_ReportCapsAndNumbers ==
    call.outcome = "Ambiguous" =>
      LET groups   == call.report.groups
          contacts == call.report.contacts
          both     == call.found_groups # <<>> /\ call.found_contacts # <<>>
      IN  /\ both =>
                /\ Len(groups) = Least(5, Len(call.found_groups))
                /\ Len(contacts) = Least(5, Len(call.found_contacts))
          /\ ~both =>
                /\ Len(groups) = Least(10, Len(call.found_groups))
                /\ Len(contacts) = Least(10, Len(call.found_contacts))
          /\ NumberedInRank(groups, call.found_groups)
          /\ NumberedInRank(contacts, call.found_contacts)
          /\ LinesSelect(groups, GroupSelector, SessionGroups)
          /\ LinesSelect(contacts, ContactSelector, SessionContacts)

\* "kim" found more than five groups and more than ten contacts, and five of
\* each are listed
C17_Witness ==
    /\ SendCall /\ call.outcome = "Ambiguous"
    /\ Len(call.found_groups) > 5 /\ Len(call.found_contacts) > 10
    /\ Len(call.report.groups) = 5 /\ Len(call.report.contacts) = 5
    /\ call.report.contacts[5].entry = send_recent_matches[5]
    /\ Len(send_recent_matches) > 10

(***************************************************************************)
(* A name search that finds nothing.                                       *)
(***************************************************************************)
NameQuery(name) == Lower(clean_name(name))

ReachesThreshold(name, label) ==
    /\ NameQuery(name) # <<>>
    /\ ScoreGe(CandidateScore(NameQuery(name), label, Threshold), Threshold)

\* some chat of the snapshot has a field equal to the name, or a label that
\* reaches the threshold
GroupReaches ==
    [name \in SearchedNames, chats \in GroupSnapshots |->
        \E i \in DOMAIN chats :
            IsFieldOf(name, chats[i]) \/ ReachesThreshold(name, ChatLabel(chats[i]))]

\* some name or nickname of the snapshot reaches the threshold
ContactReaches ==
    [name \in SearchedNames, snapshot \in ContactSnapshots |->
        \E i \in DOMAIN snapshot[1] :
            \/ ReachesThreshold(name, snapshot[1][i].name)
            \/ /\ snapshot[1][i].phone \in DOMAIN snapshot[2]
               /\ snapshot[2][snapshot[1][i].phone].nickname # <<>>
               /\ ReachesThreshold(name, snapshot[2][snapshot[1][i].phone].nickname)]

SendNameSearch == SendCall /\ call.via = "name" /\ call.outcome # "DirectoryError"

SomeGroupReaches ==
    /\ call.group_search = "made"
    /\ GroupReaches[SearchedName, SearchedChats]

SomeContactReaches ==
    /\ call.contact_search = "made"
    /\ ContactReaches[SearchedName, <<_CONTACTS_CACHE[1], _PHONE_TO_DETAILS_MAP>>]

\* C18: a name search of send_message ends with NotFound exactly when no
\* candidate of the directories it searched reaches the threshold 0.6 and no
\* group field equals the identifier; a NotFound call makes no transport
\* attempt and leaves both lists of the session as they were
C18_NotFoundIffNoCandidate ==
    /\ SendNameSearch =>
          (call.outcome = "NotFound" <=> ~SomeGroupReaches /\ ~SomeContactReaches)
    /\ (SendCall /\ call.outcome = "NotFound") =>
          /\ call.attempts = <<>> /\ call.target = "none"
          /\ SendSessionAsBefore

C18_Witness ==
    /\ SendNameSearch /\ call.outcome = "NotFound"
    /\ call.group_search = "made" /\ call.contact_search = "made"
    /\ SearchedChats # <<>> /\ _CONTACTS_CACHE[1] # <<>>
    /\ send_recent_matches # <<>> /\ send_recent_group_matches # <<>>

(***************************************************************************)
(* The two caches of the directories.                                      *)
(***************************************************************************)
\* the call read the group directory, the contact directory
GroupRead ==
    \/ call.group_search \in {"made", "error"}
    \/ SendCall /\ call.via = "name" /\ call.outcome = "DirectoryError"

ContactRead == call.contact_search = "made"

\* a snapshot was cached when the call began, less than 300 seconds old
GroupFresh ==
    /\ call.before_group_cache # None
    /\ now - call.before_group_time < _GROUP_CHATS_CACHE_TTL

ContactFresh ==
    /\ call.before_contacts_cache # None
    /\ now - call.before_contacts_time < _CACHE_TTL

GroupFetchMade == "groups" \in Range(call.fetches)

ContactFetchMade == "contacts" \in Range(call.fetches)

\* get_group_chats serves its cache exactly when it is fresh; a fetch that
\* succeeds replaces the snapshot and the fetch time
GroupCacheTtl ==
    GroupRead =>
        /\ GroupFetchMade <=> ~GroupFresh
        /\ (GroupFetchMade /\ call.group_search = "made") =>
              /\ _GROUP_CHATS_CACHE # None
              /\ _GROUP_CHATS_CACHE_TIME = now
        /\ ~GroupFetchMade =>
              /\ _GROUP_CHATS_CACHE = call.before_group_cache
              /\ _GROUP_CHATS_CACHE_TIME = call.before_group_time

\* get_cached_contacts serves its cache exactly when it is fresh; a fetch
\* replaces the snapshot and the fetch time
ContactCacheTtl ==
    ContactRead =>
        /\ ContactFetchMade <=> ~ContactFresh
        /\ ContactFetchMade =>
              /\ _CONTACTS_CACHE # None
              /\ _LAST_CACHE_UPDATE = now
        /\ ~ContactFetchMade =>
              /\ _CONTACTS_CACHE = call.before_contacts_cache
              /\ _LAST_CACHE_UPDATE = call.before_contacts_time

\* C19: get_group_chats and get_cached_contacts each return the cached
\* snapshot without a fetch exactly when a snapshot is cached and
\* now - fetchedAt < 300; in every other case, now - fetchedAt = 300
\* included, they fetch, replace the snapshot and the fetch time and return
\* the new snapshot
C19_TtlCache == GroupCacheTtl /\ ContactCacheTtl

\* the call made a fetch of the group directory that failed
GroupFetchFailed ==
    \/ call.group_search = "error"
    \/ SendCall /\ call.via = "name" /\ call.outcome = "DirectoryError"

\* C20: a group directory fetch that fails gives an error value and no
\* exception: the group-only send ends with DirectoryError and the other name
\* searches go on with no group; the cached group snapshot and its fetch time
\* stay as they were, so that the error is not served from the cache and the
\* next call fetches again
C20_FailedFetchNotCached ==
    GroupFetchFailed =>
        /\ GroupFetchMade
        /\ call.found_groups = <<>>
        /\ (SendCall /\ call.group_chat = "True") => call.outcome = "DirectoryError"
        /\ _GROUP_CHATS_CACHE = call.before_group_cache
        /\ _GROUP_CHATS_CACHE_TIME = call.before_group_time
        /\ \/ _GROUP_CHATS_CACHE = None
           \/ now - _GROUP_CHATS_CACHE_TIME >= _GROUP_CHATS_CACHE_TTL

C20_Witness ==
    /\ SendCall /\ call.group_chat = "True" /\ call.outcome = "DirectoryError"
    /\ call.before_group_cache # None
    /\ _GROUP_CHATS_CACHE = call.before_group_cache
    /\ now - _GROUP_CHATS_CACHE_TIME = _GROUP_CHATS_CACHE_TTL

(***************************************************************************)
(* A group directory that cannot be read, and the contact directory.       *)
(***************************************************************************)
\* a name search of send_message that has no group directory: the fetch
\* failed in the mode that searches both, or the mode searches contacts only
SendWithoutGroups ==
    /\ SendNameSearch
    /\ \/ call.group_chat = "None" /\ call.group_search = "error"
       \/ call.group_chat = "False"

\* the contacts of the snapshot that match the name, ranked
MatchedContacts ==
    ContactSearches[SearchedName, <<_CONTACTS_CACHE[1], _PHONE_TO_DETAILS_MAP>>]

\* C21: a group directory that cannot be fetched does not stop the
\* resolution against the contact directory: in the mode that searches both
\* and in the contact-only mode, a name that matches exactly one contact is
\* sent to that contact, and a name that matches several contacts gives
\* Ambiguous over these contacts
C21_ContactsWithoutGroups ==
    SendWithoutGroups =>
        /\ _CONTACTS_CACHE # None
        /\ call.found_groups = <<>>
        /\ Len(MatchedContacts) = 1 =>
              /\ call.outcome \in {"Sent", "SendFailed"}
              /\ call.target = "contact"
              /\ call.address = MatchedContacts[1].phone
              /\ call.attempts # <<>>
        /\ Len(MatchedContacts) > 1 =>
              /\ call.outcome = "Ambiguous"
              /\ send_recent_matches = MatchedContacts
              /\ send_recent_group_matches = <<>>
              /\ call.report.groups = <<>>

C21_Witness ==
    /\ SendWithoutGroups /\ call.group_search = "error"
    /\ GroupFetchMade
    /\ Len(MatchedContacts) = 1
    /\ call.outcome = "Sent" /\ call.target = "contact"

(***************************************************************************)
(* The two chat ids of a group send.                                       *)
(***************************************************************************)
GroupSend == SendCall /\ call.target = "group" /\ call.attempts # <<>>

\* the groups a send can go to: those found by the name search, those the
\* session held when the call began
SendableGroups == Range(call.found_groups) \cup Range(call.before_group_matches)

Separator == <<";", "+", ";">>

\* the two ids are "{service};+;{id}" and "any;+;{id}" of one id
IsPrimaryAndFallback(primary, fallback) ==
    \E service \in {S_iMessage, S_SMS} :
        /\ StartsWith(primary, service \o Separator)
        /\ fallback = <<"a", "n", "y">> \o Separator
                        \o SubSeq(primary, Len(service) + 4, Len(primary))

AttemptsTo(address) == {i \in DOMAIN call.attempts : call.attempts[i].to = address}

LastOf(indices) == CHOOSE i \in indices : \A j \in indices : j <= i

\* the send to the address returned a text that starts with "Error"
FailedTo(address) ==
    /\ AttemptsTo(address) # {}
    /\ call.attempts[LastOf(AttemptsTo(address))].result = "error"
    /\ call.attempts[LastOf(AttemptsTo(address))].via = "direct"

\* C22: a send to a group, by a single name match or by "group:N", tries
\* the primary address "{service};+;{id}" first and the fallback address
\* "any;+;{id}" only after the primary attempt failed, never after a primary
\* success; the call reports a failure only when both failed
C22_PrimaryThenFallback ==
    GroupSend =>
        \E g \in SendableGroups :
            /\ IsPrimaryAndFallback(g.applescript_id, g.applescript_id_alt)
            /\ call.attempts[1].to = g.applescript_id
            /\ \A i \in DOMAIN call.attempts :
                  call.attempts[i].to \in {g.applescript_id, g.applescript_id_alt}
            /\ \A i \in AttemptsTo(g.applescript_id), j \in AttemptsTo(g.applescript_id_alt) :
                  i < j
            /\ AttemptsTo(g.applescript_id_alt) # {} <=> FailedTo(g.applescript_id)
            /\ call.outcome \in {"Sent", "SendFailed"}
            /\ call.outcome = "SendFailed" <=>
                  FailedTo(g.applescript_id) /\ FailedTo(g.applescript_id_alt)

C22_Witness ==
    /\ GroupSend /\ call.via = "group_selector" /\ call.outcome = "Sent"
    /\ \E g \in SendableGroups :
          /\ FailedTo(g.applescript_id)
          /\ AttemptsTo(g.applescript_id_alt) # {}
          /\ ~FailedTo(g.applescript_id_alt)

(***************************************************************************)
(* The same call made twice.                                               *)
(***************************************************************************)
\* the call being answered has the arguments of the call answered before
SameRequest ==
    /\ SendCall /\ previous.call.op = "send"
    /\ call.recipient = previous.call.recipient
    /\ call.group_chat = previous.call.group_chat

\* the two calls ended with the same directory snapshots
SameSnapshots ==
    /\ previous.gcache = _GROUP_CHATS_CACHE
    /\ previous.ccache = _CONTACTS_CACHE
    /\ previous.details = _PHONE_TO_DETAILS_MAP

\* an outcome without what the transport did with the address
Resolution(outcome) == IF outcome \in {"Sent", "SendFailed"} THEN "Resolved" ELSE outcome

\* the same address resolved, or the same lists with the same scores, or the
\* same error
SameAnswer ==
    /\ Resolution(call.outcome) = Resolution(previous.call.outcome)
    /\ call.target = previous.call.target
    /\ Answer(call).first = previous.call.first
    /\ call.found_groups = previous.call.found_groups
    /\ call.found_contacts = previous.call.found_contacts

\* C23, as stated: with the directory snapshots fixed, the same identifier
\* resolved in the same mode twice in a row gives the same outcome both
\* times, whatever the identifier
C23_Determinism == (SameRequest /\ SameSnapshots) => SameAnswer

\* C23, amended: with the directory snapshots fixed, an identifier that is
\* not a selector ("group:N", "contact:N"), resolved in the same mode twice
\* in a row, gives the same outcome both times: the same address, or the
\* same ranked lists with the same scores, or the same error
C23_DeterminismOfSearch ==
    (SameRequest /\ SameSnapshots /\ ~IsSelectorText(Strip(call.recipient))) => SameAnswer

C23_Witness ==
    /\ SameRequest /\ SameSnapshots
    /\ call.via = "name" /\ call.outcome = "Ambiguous"
    /\ previous.call.outcome = "Ambiguous"
    /\ Len(call.found_groups) > 1 /\ Len(call.found_contacts) > 1
    /\ call.fetches = <<>>

(***************************************************************************)
(* The session of send_message and the session of get_recent_messages.     *)
(***************************************************************************)
\* a selector of send_message picks from the lists send_message held, a
\* selector of get_recent_messages from the lists get_recent_messages held
SelectorsReadOwnSession ==
    /\ (SendCall /\ call.via = "contact_selector" /\ call.attempts # <<>>) =>
          \E i \in DOMAIN call.before_matches :
              call.address = call.before_matches[i].phone
    /\ (SendCall /\ call.via = "group_selector" /\ call.attempts # <<>>) =>
          \E i \in DOMAIN call.before_group_matches :
              call.attempts[1].to = call.before_group_matches[i].applescript_id
    /\ (HistCall /\ call.via = "contact_selector" /\ call.target = "contact") =>
          \E i \in DOMAIN call.before_matches :
              call.address = call.before_matches[i].phone
    /\ (HistCall /\ call.via = "group_selector" /\ call.target = "group") =>
          \E i \in DOMAIN call.before_group_matches :
              call.address = call.before_group_matches[i].room_name

\* a call leaves the session of the other function as it is
CallsKeepOtherSession ==
    /\ (Idle /\ call'.op = "send") => UNCHANGED histSession
    /\ (Idle /\ call'.op = "history") => UNCHANGED sendSession

\* C24: each function has a session of its own: no call of send_message reads
\* or changes the lists of get_recent_messages, no call of
\* get_recent_messages reads or changes the lists of send_message, and a
\* selector never picks from a list the other function stored
C24_SessionsApart == [](SelectorsReadOwnSession) /\ [][CallsKeepOtherSession]_vars

C24_Witness ==
    /\ SendCall /\ call.via = "contact_selector" /\ call.outcome = "Sent"
    /\ hist_recent_matches # <<>>
    /\ Len(hist_recent_matches) # Len(call.before_matches)
    /\ call.address = call.before_matches[1].phone
    /\ call.address # hist_recent_matches[1].phone

(***************************************************************************)
(* Two callers on the one session of send_message.                         *)
(***************************************************************************)
\* the call is "contact:k" and sent to a contact
ContactPicked(k) ==
    /\ SendCall /\ call.via = "contact_selector" /\ call.attempts # <<>>
    /\ call.recipient = ContactSelector(k)

\* C25: the session of send_message is one for all callers: "contact:N"
\* picks from the list that the latest Ambiguous search stored, whoever made
\* that search, so that with two callers there is an interleaving where A is
\* given an Ambiguous report, a search of B overwrites the session, and
\* "contact:N" of A goes to an address of the list of B that the report of A
\* did not show at position N
C25_SelectorReadsLatestSearch ==
    \A k \in 1..MaxSelector :
        (ContactPicked(k) /\ k <= Len(callers.shown[callers.latest]))
            => call.address = callers.shown[callers.latest][k]

C25_Witness ==
    \E k \in 1..MaxSelector :
        /\ ContactPicked(k)
        /\ callers.current = "A" /\ callers.latest = "B"
        /\ k <= Len(callers.shown["A"]) /\ k <= Len(callers.shown["B"])
        /\ call.address = callers.shown["B"][k]
        /\ call.address # callers.shown["A"][k]

(***************************************************************************)
(* The modes of the name search.                                           *)
(***************************************************************************)
SendNameCall == SendCall /\ call.via = "name"

\* C26: in the name search of send_message the contact-only mode
\* (group_chat=False) does not search the group directory, never resolves to
\* a group and leaves the group list of the session empty after Ambiguous;
\* the group-only mode (group_chat=True) does not search the contact
\* directory, never resolves to a contact and leaves the contact list of the
\* session empty after Ambiguous
C26_ModeFiltering ==
    /\ (SendNameCall /\ call.group_chat = "False") =>
          /\ ~GroupFetchMade
          /\ _GROUP_CHATS_CACHE = call.before_group_cache
          /\ call.found_groups = <<>>
          /\ call.target # "group"
          /\ call.outcome = "Ambiguous" =>
                /\ send_recent_group_matches = <<>>
                /\ call.report.groups = <<>>
    /\ (SendNameCall /\ call.group_chat = "True") =>
          /\ ~ContactFetchMade
          /\ _CONTACTS_CACHE = call.before_contacts_cache
          /\ call.found_contacts = <<>>
          /\ call.target # "contact"
          /\ call.outcome = "Ambiguous" =>
                /\ send_recent_matches = <<>>
                /\ call.report.contacts = <<>>

C26_Witness ==
    /\ SendNameCall /\ call.group_chat = "True" /\ call.outcome = "Ambiguous"
    /\ _CONTACTS_CACHE # None
    /\ ContactReaches[SearchedName, <<_CONTACTS_CACHE[1], _PHONE_TO_DETAILS_MAP>>]
    /\ call.before_matches # <<>>
    /\ send_recent_matches = <<>>

(***************************************************************************)
(* The normalizers.                                                        *)
(***************************************************************************)
\* C27: clean_name(clean_name(s)) = clean_name(s) and
\* normalize_phone_number(normalize_phone_number(s)) =
\* normalize_phone_number(s) for every string s
C27_NormalizersIdempotent ==
    text.twice # None => text.twice = text.once

C27_Witness ==
    /\ text.function = "clean_name" /\ text.twice # None
    /\ text.once[1] # text.given /\ text.once[1] # <<>>
    /\ Len(text.once[1]) + 1 < Len(text.given)
    /\ \E i \in DOMAIN text.given : IsSpace(text.given[i])

(***************************************************************************)
(* The forms of a phone.                                                   *)
(***************************************************************************)
DigitsOf(s) == SelectSeq(s, IsDigit)

\* the digits of the query and, where they start with "1" and are more than
\* 10, the digits without this "1", or, where they are exactly 10, the
\* digits with "1" in front
PhoneForms(query) ==
    {DigitsOf(query)}
      \cup (IF DigitsOf(query) # <<>> /\ Head(DigitsOf(query)) = "1"
                /\ Len(DigitsOf(query)) > 10
            THEN {Tail(DigitsOf(query))}
            ELSE IF Len(DigitsOf(query)) = 10
            THEN {<<"1">> \o DigitsOf(query)}
            ELSE {})

StoredWithCountryCode == <<"1", "4", "1", "5", "5", "5", "5", "0", "1", "0", "0">>

QueriesOfStored == {<<"4", "1", "5", "5", "5", "5", "0", "1", "0", "0">>, <<"+", "1", " ", "(", "4", "1", "5", ")", " ", "5", "5", "5", "-", "0", "1", "0", "0">>, <<"4", "1", "5", "-", "5", "5", "5", "-", "0", "1", "0", "0">>}

\* C28: the forms tried for a phone query are its digits and, where the
\* digits start with "1" and are more than 10, the digits without the "1",
\* or, where they are exactly 10, the digits with "1" in front: the digits
\* come first, no other form is tried, and a lookup that finds nothing has
\* tried them all; the stored phone "14155550100" is found by the queries
\* "4155550100", "+1 (415) 555-0100" and "415-555-0100"
C28_PhoneVariants ==
    text.function \in {"find_handle_by_phone", "get_contact_name"} =>
        /\ text.tried # <<>>
        /\ text.tried[1] = DigitsOf(text.given)
        /\ Range(text.tried) \subseteq PhoneForms(text.given)
        /\ ~text.found => Range(text.tried) = PhoneForms(text.given)
        /\ (text.stored = StoredWithCountryCode /\ text.given \in QueriesOfStored)
              => text.found

C28_Witness ==
    /\ text.function = "find_handle_by_phone"
    /\ text.stored = StoredWithCountryCode
    /\ text.given = <<"4", "1", "5", "-", "5", "5", "5", "-", "0", "1", "0", "0">>
    /\ Len(text.tried) = 2 /\ text.tried[2] = text.stored
    /\ text.found

(***************************************************************************)
(* The scores of the matcher.                                              *)
(***************************************************************************)
Matched == text.function = "fuzzy_match"

MatchQuery == Lower(clean_name(text.given))

MatchLabel == Lower(clean_name(text.stored))

MatchTokens == Range(Split(MatchLabel))

\* the label is listed with a score below s, or it is not listed
ScoresBelow(s) == text.score = None \/ ScoreLt(text.score[1], s)

ScoresExactly(s) == text.score # None /\ text.score[1] = s

\* the query is one of several tokens of the label
QueryIsToken == MatchQuery \in MatchTokens /\ MatchQuery # MatchLabel

\* the query is no token of the label and not the label
QueryIsNeither == MatchQuery \notin MatchTokens /\ MatchQuery # MatchLabel

GroupFetchGaveNothing == GroupFetchMade /\ _GROUP_CHATS_CACHE_TIME # now

\* C30: in the group-only mode (group_chat=True) a name search of
\* send_message whose fetch of the group directory fails answers with the
\* DirectoryError and not with NotFound, sends nothing and leaves the
\* session as it was
C30_GroupOnlyDirectoryError ==
    /\ (SendNameCall /\ call.group_chat = "True" /\ GroupFetchGaveNothing) =>
          /\ call.outcome = "DirectoryError"
          /\ call.attempts = <<>> /\ call.target = "none"
          /\ call.found_groups = <<>> /\ call.found_contacts = <<>>
          /\ SendSessionAsBefore
    /\ (SendCall /\ call.outcome = "DirectoryError") =>
          /\ call.via = "name" /\ call.group_chat = "True"
          /\ GroupFetchGaveNothing

C30_Witness ==
    /\ SendNameCall /\ call.group_chat = "True" /\ GroupFetchGaveNothing
    /\ call.outcome = "DirectoryError"
    /\ send_recent_matches # <<>> /\ send_recent_group_matches # <<>>

(***************************************************************************)
(* The work of one call is bounded.                                        *)
(***************************************************************************)
\* the attempts made for one address: the file-based script, and the direct
\* script once after the file-based script failed
OneRecipientAttempts(attempts) ==
    /\ Len(attempts) \in 1..2
    /\ attempts[1].via = "file"
    /\ Len(attempts) = 2 =>
          /\ attempts[1].result = "error"
          /\ attempts[2].via = "direct"
          /\ attempts[2].to = attempts[1].to

FetchesOf(directory) == {i \in DOMAIN call.fetches : call.fetches[i] = directory}

\* C31: a send_message call is one step without a retry: a contact target
\* gets at most two transport attempts (file-based, then direct), a group
\* target at most four (file-based and direct to the primary address, then
\* file-based and direct to the fallback address), a call without a target
\* none, and each directory is fetched at most once
C31_BoundedWork ==
    SendCall =>
        /\ call.target = "none" => call.attempts = <<>>
        /\ call.target = "contact" => OneRecipientAttempts(call.attempts)
        /\ call.target = "group" =>
              \/ OneRecipientAttempts(call.attempts)
              \/ /\ Len(call.attempts) \in 3..4
                 /\ OneRecipientAttempts(SubSeq(call.attempts, 1, 2))
                 /\ OneRecipientAttempts(SubSeq(call.attempts, 3, Len(call.attempts)))
                 /\ call.attempts[3].to # call.attempts[1].to
        /\ Cardinality(FetchesOf("groups")) <= 1
        /\ Cardinality(FetchesOf("contacts")) <= 1

C31_Witness ==
    /\ SendCall /\ call.target = "group" /\ Len(call.attempts) = 4
    /\ call.group_chat = "True"
    /\ Cardinality(FetchesOf("groups")) = 1

(***************************************************************************)
(* The entries a selector can pick and the entries the report listed.      *)
(***************************************************************************)
\* what the Ambiguous report listed of the session the call began with
ShownOfSession == AmbiguousReport(call.before_group_matches, call.before_matches)

\* the N of "contact:N" or "group:N"
SelectorNumber == ParseInt(AfterColon(call.recipient))

\* the call is a selector of a positive number, in a mode that admits it,
\* for a session list that is not empty
ContactSelection ==
    /\ SendCall /\ call.via = "contact_selector" /\ call.group_chat # "True"
    /\ SelectorNumber.ok /\ SelectorNumber.value >= 1
    /\ call.before_matches # <<>>

GroupSelection ==
    /\ SendCall /\ call.via = "group_selector" /\ call.group_chat # "False"
    /\ SelectorNumber.ok /\ SelectorNumber.value >= 1
    /\ call.before_group_matches # <<>>

\* C32: "contact:N" and "group:N" with N greater than the number of
\* entries of that kind that the Ambiguous report listed (ten, or five when
\* both lists were not empty) fail with IndexOutOfRange
C32_OnlyListedEntries ==
    /\ (ContactSelection /\ SelectorNumber.value > Len(ShownOfSession.contacts))
          => call.outcome = "IndexOutOfRange"
    /\ (GroupSelection /\ SelectorNumber.value > Len(ShownOfSession.groups))
          => call.outcome = "IndexOutOfRange"

(***************************************************************************)
(* The size of a session.                                                  *)
(***************************************************************************)
EmptyOrSeveral(matches, group_matches) ==
    \/ matches = <<>> /\ group_matches = <<>>
    \/ Len(matches) + Len(group_matches) >= 2

\* C33: the session of send_message and the session of get_recent_messages
\* are each, in every state, either empty (both lists empty) or hold at
\* least two matches in their two lists together
C33_SessionSize ==
    /\ EmptyOrSeveral(send_recent_matches, send_recent_group_matches)
    /\ EmptyOrSeveral(hist_recent_matches, hist_recent_group_matches)

\* both sessions are held, the one of send_message with one contact and one
\* group, and a call has been answered since
C33_Witness ==
    /\ Len(send_recent_matches) = 1 /\ Len(send_recent_group_matches) = 1
    /\ hist_recent_group_matches # <<>>
    /\ HistCall

(***************************************************************************)
(* The address of a phone literal.                                         *)
(***************************************************************************)
\* the identifier as it was given has no digit and only the phone
\* punctuation, or nothing at all
OnlyPhonePunctuation(s) ==
    \A i \in DOMAIN s : s[i] \in {"+", "-", " ", "(", ")"}

IsDigitString(s) == s # <<>> /\ \A i \in DOMAIN s : IsDigit(s[i])

\* C34: the address send_message resolves from a phone literal is a
\* non-empty string of digits; an identifier that is empty or made only of
\* '+', '-', ' ', '(' and ')' is resolved to no address and nothing of it is
\* handed to the transport
C34_PhoneAddressIsDigits ==
    /\ (SendCall /\ call.via = "phone" /\ call.target = "contact")
          => IsDigitString(call.address)
    /\ (SendCall /\ OnlyPhonePunctuation(call.recipient))
          => call.target = "none" /\ call.attempts = <<>>

(***************************************************************************)
(* A literal between the search and the selector.                          *)
(***************************************************************************)
SendLiteralCall == SendCall /\ call.via \in {"email", "phone"}

\* the call before this one was a send to a literal, held to be sent or to
\* have failed
AfterLiteralSend ==
    /\ previous.call.op = "send" /\ previous.call.via \in {"email", "phone"}
    /\ previous.call.outcome \in {"Sent", "SendFailed"}

\* the contacts of the Ambiguous report the caller was given last
ShownLast == callers.shown[callers.current]

\* C35: a send_message call with a phone literal or an email literal does
\* not read the session of send_message and leaves both lists as they
\* were, whether the send succeeds or fails; "contact:N" given right after
\* it, where a session was held before it, picks the N-th contact of the
\* Ambiguous report recorded before it
C35_LiteralKeepsSession ==
    /\ SendLiteralCall => SendSessionAsBefore /\ ~call.read
    /\ (SendCall /\ call.via = "contact_selector" /\ AfterLiteralSend
          /\ call.group_chat # "True" /\ SelectorNumber.ok
          /\ call.before_matches # <<>>
          /\ SelectorNumber.value \in DOMAIN ShownLast)
          => /\ call.target = "contact"
             /\ call.address = ShownLast[SelectorNumber.value]

C35_Witness ==
    /\ SendCall /\ call.via = "contact_selector" /\ AfterLiteralSend
    /\ previous.call.outcome = "SendFailed"
    /\ call.outcome = "Sent"
    /\ call.address = ShownLast[1]

(***************************************************************************)
(* A selector after the directories were read again.                       *)
(***************************************************************************)
\* the call answered before this one was the Ambiguous search
AfterAmbiguousSearch == previous.call.op = "send" /\ previous.call.outcome = "Ambiguous"

CachesAsBefore ==
    /\ _GROUP_CHATS_CACHE = call.before_group_cache
    /\ _GROUP_CHATS_CACHE_TIME = call.before_group_time
    /\ _CONTACTS_CACHE = call.before_contacts_cache
    /\ _LAST_CACHE_UPDATE = call.before_contacts_time

\* both directories are cached with another content than the search left
DirectoriesReadAgain ==
    /\ _GROUP_CHATS_CACHE # None /\ _GROUP_CHATS_CACHE # previous.gcache
    /\ _CONTACTS_CACHE # None /\ _CONTACTS_CACHE # previous.ccache

\* C36: "contact:N" and "group:N" given after the Ambiguous search send to
\* the address of the N-th entry that the search found and stored, whatever
\* the directory caches hold by then, also where a cache expired and was
\* read again with another content in between; a selector call fetches no
\* directory and leaves both caches as they were
C36_SelectorOfRecordedEntries ==
    /\ (ContactSelection /\ AfterAmbiguousSearch
          /\ SelectorNumber.value \in DOMAIN previous.call.found_contacts)
          => /\ call.target = "contact"
             /\ call.address = previous.call.found_contacts[SelectorNumber.value].phone
    /\ (GroupSelection /\ AfterAmbiguousSearch
          /\ SelectorNumber.value \in DOMAIN previous.call.found_groups)
          => /\ call.target = "group"
             /\ call.attempts[1].to =
                   previous.call.found_groups[SelectorNumber.value].applescript_id
    /\ SendSelectorCall => call.fetches = <<>> /\ CachesAsBefore

\* "contact:2" after both directories were read again, sent to a phone
\* that the cached directory no longer has
C36_Witness ==
    /\ ContactSelection /\ AfterAmbiguousSearch /\ DirectoriesReadAgain
    /\ SelectorNumber.value = 2
    /\ call.outcome = "Sent"
    /\ call.address = previous.call.found_contacts[2].phone
    /\ \A i \in DOMAIN _CONTACTS_CACHE[1] : _CONTACTS_CACHE[1][i].phone # call.address

(***************************************************************************)
(* A contact directory that cannot be read.                                *)
(***************************************************************************)
\* the name search of the call read the contact directory and the read
\* failed: the database gave an error and the command line gave nothing
ContactFetchFailed == SendCall /\ call.contact_fetch = "failed"

\* C37: a fetch of the contact directory that fails leaves the cached
\* contact snapshot and its fetch time as they were: the cache holds the
\* snapshot it held before, and the empty result of the failure is not
\* served as the contact directory for the next 300 seconds
C37_FailedContactFetchNotCached ==
    ContactFetchFailed =>
        /\ ContactFetchMade
        /\ _CONTACTS_CACHE = call.before_contacts_cache
        /\ _LAST_CACHE_UPDATE = call.before_contacts_time
        /\ \/ _CONTACTS_CACHE = None
           \/ now - _LAST_CACHE_UPDATE > _CACHE_TTL

(***************************************************************************)
(* The two maps of a contact snapshot.                                     *)
(***************************************************************************)
\* the phone -> name map and the phone -> details map that one read of an
\* address book gives
SnapshotsOfOneFetch ==
    {<<ContactsMap(w), PhoneToDetails(w)>> : w \in {ContactWorld1, ContactWorld2}}

\* C38: in every state the details map that find_contact_by_name takes the
\* nicknames from (_PHONE_TO_DETAILS_MAP) was built by the fetch that built
\* the cached phone -> name map (_CONTACTS_CACHE), so that a contact search
\* has the names and the nicknames of one fetch
C38_SnapshotOfOneFetch ==
    (_CONTACTS_CACHE # None /\ _CONTACTS_CACHE[1] # <<>>) =>
        <<_CONTACTS_CACHE[1], _PHONE_TO_DETAILS_MAP>> \in SnapshotsOfOneFetch

====
